---- MODULE Spec2Model ----
(***************************************************************************)
(* The EFOS ingestion pipeline of rsampayo/validcfdi.                       *)
(*                                                                         *)
(* Spec       : runs of efos_manager.update_efos_database, one at a time,  *)
(*              against a remote file that may change under them.          *)
(* SpecImport : one invocation of import_efos_data on any list of records  *)
(*              and any previous table.                                    *)
(* SpecCall   : the callers of update_efos_database (the scheduler's job   *)
(*              threads and the /update-efos-database endpoint).           *)
(* SpecFetch  : one call of download_efos_csv or get_file_metadata with    *)
(*              its retry loop.                                            *)
(* SpecLocate : one scan for the header row by clean_csv.py, over inputs   *)
(*              made of preamble lines, a header row and a data row.       *)
(* SpecJob    : the scheduler's job threads alone, each running to its     *)
(*              end (weak fairness of the steps of a started job).         *)
(* SpecParse  : one file from its text to table rows: the data section of  *)
(*              clean_csv.py, parse_csv_data and the record construction   *)
(*              of import_efos_data, character by character.               *)
(*                                                                         *)
(* Failures are modelled at the sites the pipeline has handlers for: the   *)
(* metadata probe, the download, change detection, CSV cleaning, parsing,  *)
(* the import (delete, batch insert, record construction), the metadata    *)
(* save and the commit of last_checked on the ETag short-circuit.  A       *)
(* failure to read the efos_metadata row counts as a failure of the probe  *)
(* it follows.                                                             *)
(***************************************************************************)
EXTENDS Integers, Sequences, FiniteSets, TLC

\* ------------------------------------------------------------------ bounds
MaxRuns == 3            \* Spec: runs of update_efos_database in one behaviour
MaxChanges == 1         \* Spec: changes of the remote file in one behaviour
MaxFileRows == 1        \* Spec: data rows of a remote file
MaxRecords == 3         \* SpecImport: records handed to import_efos_data
MaxPrior == 2           \* SpecImport: rows of the previous generation
MaxCalls == 2           \* SpecCall: invocations per caller
MaxRetriesSetting == 4  \* SpecFetch: largest configured EFOS_MAX_RETRIES
MaxPreamble == 5        \* SpecLocate: lines before the header row
SmallWindow == 3        \* SpecLocate: a scan window shorter than the default

\* EFOS_RETRY_BACKOFF_SECONDS, its default
RETRY_BACKOFF == 5

\* EFOS_IMPORT_BATCH_SIZE, scaled down from its default of 1000
IMPORT_BATCH_SIZE == 2

\* ------------------------------------------------------------------ values
NULL == "null"          \* Python None in a string-valued field
NoHash == <<>>          \* Python None in content_hash

RFCs == {"A"}
\* The rfc field of a parsed record: a taxpayer id, or None for a row whose
\* RFC field is empty or missing (parse_csv_data stores None for it).
RowKinds == RFCs \cup {NULL}

ETags == {"abc", "xyz"}
LastModifieds == {"m1", "m2"}

SeqsUpTo(S, n) == UNION {[1..k -> S] : k \in 0..n}

\* A remote body: empty bytes, text without a header row in the scan window,
\* or a CSV with a header row and data rows.
Contents ==
    {[kind |-> "empty", rows |-> <<>>], [kind |-> "nohdr", rows |-> <<>>]}
    \cup {[kind |-> "csv", rows |-> r] : r \in SeqsUpTo(RowKinds, MaxFileRows)}

Remotes == [content : Contents, etag : ETags \cup {NULL}, lm : LastModifieds \cup {NULL}]

\* The header values are interchangeable: the first file reports "abc"/"m1".
FirstRemotes == {r \in Remotes : r.etag # "xyz" /\ r.lm # "m2"}

VARIABLES
    remote,      \* the file the server holds and the headers it reports
    changes,     \* how often the remote file has changed
    efos_records,\* the ReferenceTable: sequence of [rfc, gen]
    efos_metadata,\* the efos_metadata table: sequence of rows
    clock,       \* datetime.utcnow(), one tick per run
    pc,          \* position of the orchestrator run
    run,         \* local frame of update_efos_database / import_efos_data
    result,      \* the value the run returned
    raised,      \* TRUE when an exception left update_efos_database
    obs,         \* history of the current run, for stating the claims
    is_job_running, \* efos_scheduler.is_job_running
    callers,     \* SpecCall: each caller's position
    active,      \* SpecCall: callers inside update_efos_database
    fetch,       \* SpecFetch: frame of download_efos_csv / get_file_metadata
    locate,      \* SpecLocate: frame of the header scan of clean_csv.py
    parse        \* SpecParse: one file on its way from text to table rows

vars == <<remote, changes, efos_records, efos_metadata, clock, pc, run, result,
          raised, obs, is_job_running, callers, active, fetch, locate, parse>>

\* ------------------------------------------------------------- dictionaries
EmptyDict == [k \in {} |-> NULL]

\* dict.get(k, default): the value when the key is present (None included)
Get(d, k, default) == IF k \in DOMAIN d THEN d[k] ELSE default

Truthy(s) == s # NULL

\* calculate_file_hash: SHA-256, collision free on the bounded contents
calculate_file_hash(content) == <<"sha256", content>>

\* `if content:` -- bytes are truthy when non-empty
ContentTruthy(content) == content.kind # "empty"

\* get_file_metadata on success: the headers of the HEAD response
get_file_metadata(r) == [etag |-> r.etag, last_modified |-> r.lm]

WithHash(md, content) ==
    IF ContentTruthy(content)
    THEN md @@ ("content_hash" :> calculate_file_hash(content))
    ELSE md

\* ------------------------------------------------------- change detection
\* Variant: any content that was downloaded counts as changed.
has_file_changed_Eager(probeOK, r, metaTable, content) ==
    [changed |-> TRUE,
     metadata |-> IF probeOK THEN WithHash(get_file_metadata(r), content) ELSE EmptyDict]

\* Variant: the Last-Modified header is not compared.
has_file_changed_NoLastModified(probeOK, r, metaTable, content) ==
    LET rm == get_file_metadata(r) IN
    IF ~probeOK THEN [changed |-> TRUE, metadata |-> EmptyDict]
    ELSE IF metaTable = <<>> THEN [changed |-> TRUE, metadata |-> WithHash(rm, content)]
    ELSE LET rec == Head(metaTable) IN
      IF Truthy(rm.etag) /\ Truthy(rec.etag) /\ rm.etag # rec.etag
      THEN [changed |-> TRUE, metadata |-> WithHash(rm, content)]
      ELSE IF ContentTruthy(content)
      THEN [changed |-> (rec.content_hash = NoHash
                         \/ calculate_file_hash(content) # rec.content_hash),
            metadata |-> WithHash(rm, content)]
      ELSE [changed |-> FALSE, metadata |-> rm]

\* Variant: agreeing headers settle the question, the hash is not compared.
has_file_changed_HeadersOnly(probeOK, r, metaTable, content) ==
    LET rm == get_file_metadata(r) IN
    IF ~probeOK THEN [changed |-> TRUE, metadata |-> EmptyDict]
    ELSE IF metaTable = <<>> THEN [changed |-> TRUE, metadata |-> WithHash(rm, content)]
    ELSE LET rec == Head(metaTable) IN
      IF Truthy(rm.etag) /\ Truthy(rec.etag) /\ rm.etag # rec.etag
      THEN [changed |-> TRUE, metadata |-> WithHash(rm, content)]
      ELSE IF Truthy(rm.last_modified) /\ Truthy(rec.last_modified)
              /\ rm.last_modified # rec.last_modified
      THEN [changed |-> TRUE, metadata |-> WithHash(rm, content)]
      ELSE [changed |-> FALSE, metadata |-> WithHash(rm, content)]

\* has_file_changed(db, content).  probeOK: get_file_metadata() returned (the
\* except clause answers (True, {}) for any failure inside).
has_file_changed(probeOK, r, metaTable, content) ==
    LET rm == get_file_metadata(r) IN
    IF ~probeOK THEN [changed |-> TRUE, metadata |-> EmptyDict]
    ELSE IF metaTable = <<>> THEN [changed |-> TRUE, metadata |-> WithHash(rm, content)]
    ELSE LET rec == Head(metaTable) IN
      IF Truthy(rm.etag) /\ Truthy(rec.etag) /\ rm.etag # rec.etag
      THEN [changed |-> TRUE, metadata |-> WithHash(rm, content)]
      ELSE IF Truthy(rm.last_modified) /\ Truthy(rec.last_modified)
              /\ rm.last_modified # rec.last_modified
      THEN [changed |-> TRUE, metadata |-> WithHash(rm, content)]
      ELSE IF ContentTruthy(content)
      THEN [changed |-> (rec.content_hash = NoHash
                         \/ calculate_file_hash(content) # rec.content_hash),
            metadata |-> WithHash(rm, content)]
      ELSE [changed |-> FALSE, metadata |-> rm]

\* ----------------------------------------------------------- save_metadata
AnyTruthy(md) ==
    \/ Truthy(Get(md, "etag", NULL))
    \/ Truthy(Get(md, "last_modified", NULL))
    \/ Get(md, "content_hash", NoHash) # NoHash

\* save_metadata(db, metadata) when its commit succeeds: the table afterwards
save_metadata(metaTable, md, now) ==
    IF metaTable = <<>>
    THEN <<[etag |-> Get(md, "etag", NULL),
            last_modified |-> Get(md, "last_modified", NULL),
            content_hash |-> Get(md, "content_hash", NoHash),
            last_updated |-> now,
            last_checked |-> now]>>
    ELSE LET rec == Head(metaTable) IN
         <<[etag |-> Get(md, "etag", rec.etag),
            last_modified |-> Get(md, "last_modified", rec.last_modified),
            content_hash |-> Get(md, "content_hash", rec.content_hash),
            last_updated |-> IF AnyTruthy(md) THEN now ELSE rec.last_updated,
            last_checked |-> now]>> \o Tail(metaTable)

\* ------------------------------------------------------------ the importer
Min(a, b) == IF a < b THEN a ELSE b

\* chunk_records: the i-th chunk (0-based) of records
chunk_records(records, i) ==
    SubSeq(records, i * IMPORT_BATCH_SIZE + 1,
           Min(Len(records), (i + 1) * IMPORT_BATCH_SIZE))

\* Variant: a last, shorter chunk is not yielded.
NumChunks_Floor(records) == Len(records) \div IMPORT_BATCH_SIZE

\* Lines 442-444: range(0, len(records), IMPORT_BATCH_SIZE)
NumChunks(records) == (Len(records) + IMPORT_BATCH_SIZE - 1) \div IMPORT_BATCH_SIZE

\* Variant: a record whose construction raised is added all the same.
RECURSIVE BuildRecords_NoSkip(_, _, _, _)
BuildRecords_NoSkip(chunk, ctorFail, gen, k) ==
    IF k > Len(chunk) THEN <<>>
    ELSE <<[rfc |-> chunk[k], gen |-> gen]>> \o BuildRecords_NoSkip(chunk, ctorFail, gen, k + 1)

\* The EfosRecord objects built from a chunk; ctorFail is the set of positions
\* whose construction raised (they are logged and skipped).
RECURSIVE BuildRecords(_, _, _, _)
BuildRecords(chunk, ctorFail, gen, k) ==
    IF k > Len(chunk) THEN <<>>
    ELSE (IF k \in ctorFail THEN <<>> ELSE <<[rfc |-> chunk[k], gen |-> gen]>>)
         \o BuildRecords(chunk, ctorFail, gen, k + 1)

\* efos_records.rfc is nullable=False: a batch holding a record whose rfc is
\* None is refused by the database as a whole.
ViolatesNotNull(objs) == \E k \in 1..Len(objs) : objs[k].rfc = NULL

\* The positions of a chunk whose record has rfc None (parse_csv_data stores
\* None for an empty cell, line 409, and record.get('rfc', '') returns it).
NullRfc(chunk) == {k \in 1..Len(chunk) : chunk[k] = NULL}

\* check_rfc_in_efos(db, rfc): the first matching row, or None
check_rfc_in_efos(table, rfc) ==
    IF \E k \in 1..Len(table) : table[k].rfc = rfc THEN "found" ELSE "none"

\* Line 623: the stored row names the probed ETag
etag_unchanged(metaTable, rm) ==
    /\ metaTable # <<>>
    /\ Truthy(rm.etag)
    /\ Head(metaTable).etag = rm.etag

\* Variant: the short-circuit stamps last_updated as well.
touch_last_checked_Both(metaTable, now) ==
    <<[Head(metaTable) EXCEPT !.last_checked = now, !.last_updated = now]>>
    \o Tail(metaTable)

\* Lines 630-632: metadata_record.last_checked = utcnow(); commit
touch_last_checked(metaTable, now) ==
    <<[Head(metaTable) EXCEPT !.last_checked = now]>> \o Tail(metaTable)

\* Variant: the delete is never issued.
delete_all_Skipped(table) == table

\* Lines 465-466: db.execute(delete(EfosRecord)); db.commit()
delete_all(table) == <<>>

\* ---------------------------------------------------------------- results
NoResult == [status |-> "none", via |-> "none", records_processed |-> 0,
             records_imported |-> 0]
Unchanged(via) == [status |-> "unchanged", via |-> via, records_processed |-> 0,
                   records_imported |-> 0]
ErrorResult(site) == [status |-> "error", via |-> site, records_processed |-> 0,
                      records_imported |-> 0]

\* Variant: save_metadata is called outside the try block.
OnException_SaveOutsideTry(site) ==
    IF site = "probe" THEN "download" ELSE IF site = "save" THEN "raise" ELSE "except"

\* Variant: the initial probe shares the outer handler, so its failure ends the run.
OnException_ProbeFatal(site) == "except"

\* Where control goes when the step at `site` raises inside
\* update_efos_database: the inner handler of the initial probe swallows the
\* exception and goes on to the download; every other site re-raises into the
\* outer `except Exception`, which builds the error result.
OnException(site) == IF site = "probe" THEN "download" ELSE "except"

\* ------------------------------------------------------------------ frames
NoContent == [kind |-> "none", rows |-> <<>>]

BlankRun == [csv_content |-> NoContent, metadata |-> EmptyDict, records |-> <<>>,
             batch |-> 0, total_count |-> 0, site |-> "none", bound |-> {}]

BlankObs == [tableAtStart |-> <<>>, metaAtStart |-> <<>>, probedEtag |-> NULL,
             downloadedEtag |-> NULL,
             probeFailed |-> FALSE, touchFailed |-> FALSE,
             downloaded |-> FALSE, detectFailed |-> FALSE,
             deleted |-> FALSE, inserted |-> 0, yielded |-> 0, ctorFailed |-> 0,
             batchLost |-> 0, malformed |-> 0, dbFailed |-> 0, moved |-> FALSE, stable |-> TRUE, fresh |-> FALSE,
             freshRun |-> FALSE, streak |-> 0]

CallVars == <<is_job_running, callers, active>>
AuxVars == <<fetch, locate, parse>>

\* No fetch in progress.
NoFetch == [fn |-> "none", MAX_RETRIES |-> 0, server |-> "none", pc |-> "none",
            retry_count |-> 0, attempts |-> 0, waits |-> <<>>, last |-> "none"]
\* No header scan in progress.
NoLocateFrame == [fn |-> "none", preamble |-> <<>>, header |-> "none",
             max_lines |-> 0, pc |-> "none", i |-> 0, header_index |-> -1,
             header_row |-> <<>>, output |-> <<>>, returncode |-> -1]
\* No file being cleaned and parsed.
NoParseFrame == [pc |-> "none", preamble |-> 0, header |-> "none", rows |-> <<>>,
                 header_index |-> -1, i |-> 0, cleaned |-> <<>>, fieldnames |-> <<>>,
                 keys |-> <<>>,
                 records |-> <<>>, batch |-> 0, table |-> <<>>, total_count |-> 0]

DbVars == <<efos_records, efos_metadata>>

Init ==
    /\ remote \in FirstRemotes
    /\ changes = 0
    /\ efos_records = <<>>
    /\ efos_metadata = <<>>
    /\ clock = 0
    /\ pc = "idle"
    /\ run = BlankRun
    /\ result = NoResult
    /\ raised = FALSE
    /\ obs = BlankObs
    /\ is_job_running = FALSE
    /\ callers = <<>>
    /\ active = {}
    /\ fetch = NoFetch
    /\ locate = NoLocateFrame
    /\ parse = NoParseFrame

\* ------------------------------------------------- update_efos_database
\* A caller enters update_efos_database (line 612).
StartRun ==
    /\ pc = "idle"
    /\ clock < MaxRuns
    /\ clock' = clock + 1
    /\ pc' = "probe"
    /\ obs' = [obs EXCEPT !.tableAtStart = efos_records,
                          !.metaAtStart = efos_metadata,
                          !.moved = FALSE,
                          !.stable = TRUE,
                          !.freshRun = obs.fresh]
    /\ UNCHANGED <<remote, changes, DbVars, run, result, raised, CallVars, AuxVars>>

\* Lines 617-644: the initial probe and the ETag short-circuit.  Whatever
\* raises inside (the probe, the query, the commit of last_checked) is logged
\* and the run goes on to the download.
InitialProbe ==
    /\ pc = "probe"
    /\ \E probeOK \in BOOLEAN, commitOK \in BOOLEAN :
        IF ~probeOK
        THEN /\ commitOK
             /\ pc' = OnException("probe")
             /\ obs' = [obs EXCEPT !.probeFailed = TRUE]
             /\ UNCHANGED <<efos_metadata, result>>
        ELSE LET rm == get_file_metadata(remote) IN
             IF etag_unchanged(efos_metadata, rm) /\ ~commitOK
             THEN /\ pc' = OnException("probe")
                  /\ obs' = [obs EXCEPT !.probedEtag = rm.etag, !.touchFailed = TRUE]
                  /\ UNCHANGED <<efos_metadata, result>>
             ELSE IF etag_unchanged(efos_metadata, rm)
             THEN /\ efos_metadata' = touch_last_checked(efos_metadata, clock)
                  /\ result' = Unchanged("etag")
                  /\ pc' = "done"
                  /\ obs' = [obs EXCEPT !.probedEtag = rm.etag,
                                        !.streak = IF obs.freshRun THEN @ + 1 ELSE 0]
             ELSE /\ commitOK
                  /\ pc' = "download"
                  /\ obs' = [obs EXCEPT !.probedEtag = rm.etag]
                  /\ UNCHANGED <<efos_metadata, result>>
    /\ UNCHANGED <<remote, changes, efos_records, clock, run, raised, CallVars, AuxVars>>

\* Lines 646-652: download_efos_csv, after its retries.
Download ==
    /\ pc = "download"
    /\ \E ok \in BOOLEAN :
        IF ok
        THEN /\ run' = [run EXCEPT !.csv_content = remote.content,
                                   !.bound = {"csv_content"}]
             /\ obs' = [obs EXCEPT !.downloaded = TRUE, !.moved = FALSE,
                                   !.downloadedEtag = remote.etag]
             /\ pc' = "detect"
        ELSE /\ run' = [run EXCEPT !.site = "download"]
             /\ obs' = obs
             /\ pc' = OnException("download")
    /\ UNCHANGED <<remote, changes, DbVars, clock, result, raised, CallVars, AuxVars>>

\* Line 655: has_file_changed(db, csv_content), with its own probe.
DetectChange ==
    /\ pc = "detect"
    /\ \E probeOK \in BOOLEAN :
        LET r == has_file_changed(probeOK, remote, efos_metadata, run.csv_content) IN
        /\ run' = [run EXCEPT !.metadata = r.metadata]
        /\ obs' = [obs EXCEPT !.detectFailed = ~probeOK]
        /\ pc' = IF r.changed THEN "clean" ELSE "skip"
    /\ UNCHANGED <<remote, changes, DbVars, clock, result, raised, CallVars, AuxVars>>

\* Lines 657-673: file unchanged, save the metadata and return.
SkipUnchanged ==
    /\ pc = "skip"
    /\ \E saveOK \in BOOLEAN :
        IF saveOK
        THEN /\ efos_metadata' = save_metadata(efos_metadata, run.metadata, clock)
             /\ result' = Unchanged("content")
             /\ pc' = "done"
             /\ run' = run
             /\ obs' = [obs EXCEPT !.streak = IF obs.freshRun THEN @ + 1 ELSE 0]
        ELSE /\ run' = [run EXCEPT !.site = "save"]
             /\ pc' = OnException("save")
             /\ UNCHANGED <<efos_metadata, result, obs>>
    /\ UNCHANGED <<remote, changes, efos_records, clock, raised, CallVars, AuxVars>>

\* Variant: the cleaner's exit status is not checked.
HeaderFound_Unchecked(content) == TRUE

\* clean_csv.py exits 1 when process_csv finds no header row within the scan
\* window (clean_csv.py 179-182, 372); clean_csv_data then raises (301-303).
HeaderFound(content) == content.kind = "csv"

\* Lines 677-687: clean_csv_data(csv_content); `del csv_content`.
CleanCsv ==
    /\ pc = "clean"
    /\ \E ok \in BOOLEAN :
        IF ok /\ HeaderFound(run.csv_content)
        THEN /\ run' = [run EXCEPT !.bound = {"cleaned_csv"}]
             /\ pc' = "parse"
        ELSE /\ run' = [run EXCEPT !.site = "clean"]
             /\ pc' = OnException("clean")
    /\ UNCHANGED <<remote, changes, DbVars, clock, result, raised, obs, CallVars, AuxVars>>

\* Lines 689-699: parse_csv_data(cleaned_csv); `del cleaned_csv`.
ParseCsv ==
    /\ pc = "parse"
    /\ \E ok \in BOOLEAN :
        IF ok
        THEN /\ run' = [run EXCEPT !.records = run.csv_content.rows,
                                   !.bound = {"records"}]
             /\ obs' = [obs EXCEPT !.yielded = Len(run.csv_content.rows)]
             /\ pc' = "delete"
        ELSE /\ run' = [run EXCEPT !.site = "parse"]
             /\ pc' = OnException("parse")
             /\ obs' = obs
    /\ UNCHANGED <<remote, changes, DbVars, clock, result, raised, CallVars, AuxVars>>

\* import_efos_data, lines 457-470: delete every row and commit.  A failure
\* is rolled back and raised (557-561).
ImportDelete ==
    /\ pc = "delete"
    /\ \E ok \in BOOLEAN :
        IF ok
        THEN /\ efos_records' = delete_all(efos_records)
             /\ obs' = [obs EXCEPT !.deleted = TRUE]
             /\ run' = [run EXCEPT !.batch = 0, !.total_count = 0]
             /\ pc' = IF NumChunks(run.records) > 0 THEN "batch" ELSE "save"
        ELSE /\ run' = [run EXCEPT !.site = "import"]
             /\ pc' = OnException("import")
             /\ UNCHANGED <<efos_records, obs>>
    /\ UNCHANGED <<remote, changes, efos_metadata, clock, result, raised, CallVars, AuxVars>>

\* Variant: the batch is counted before its commit is known to have succeeded.
total_count_after_Eager(total_count, objs, committed) == total_count + Len(objs)

\* Line 527: `total_count += len(efos_records)`, reached only after
\* bulk_save_objects and commit returned.
total_count_after(total_count, objs, committed) ==
    IF committed THEN total_count + Len(objs) ELSE total_count

\* import_efos_data, lines 474-545: one pass of the batch loop.
ImportBatch ==
    /\ pc = "batch"
    /\ LET chunk == chunk_records(run.records, run.batch) IN
       \E ctorFail \in SUBSET (1..Len(chunk)), dbOK \in BOOLEAN :
        LET objs == BuildRecords(chunk, ctorFail, clock, 1)
            committed == objs # <<>> /\ dbOK /\ ~ViolatesNotNull(objs)
        IN
        /\ (objs = <<>> \/ ViolatesNotNull(objs)) => dbOK
        /\ efos_records' = IF committed THEN efos_records \o objs ELSE efos_records
        /\ run' = [run EXCEPT !.batch = @ + 1,
                              !.total_count = total_count_after(@, objs, committed)]
        /\ obs' = [obs EXCEPT !.ctorFailed = @ + Cardinality(ctorFail),
                              !.inserted = IF committed THEN @ + Len(objs) ELSE @,
                              !.batchLost = IF committed THEN @ ELSE @ + Len(objs),
                              !.malformed = @ + Cardinality(ctorFail \cup NullRfc(chunk)),
                              !.dbFailed = IF dbOK THEN @ ELSE @ + 1]
        /\ pc' = IF run.batch + 1 < NumChunks(run.records) THEN "batch" ELSE "save"
    /\ UNCHANGED <<remote, changes, efos_metadata, clock, result, raised, CallVars, AuxVars>>

\* Line 721: `len(records) if 'records' in locals() else 0`
records_processed(frame) == IF "records" \in frame.bound THEN Len(frame.records) ELSE 0

\* Lines 547-555 and 703-728: the import returns its count, `del records`,
\* save_metadata(db, metadata), the success result.
SaveAndReturn ==
    /\ pc = "save"
    /\ \E saveOK \in BOOLEAN :
        LET frame == [run EXCEPT !.bound = @ \ {"records"}] IN
        IF saveOK
        THEN /\ efos_metadata' = save_metadata(efos_metadata, run.metadata, clock)
             /\ result' = [status |-> "success", via |-> "import",
                           records_processed |-> records_processed(frame),
                           records_imported |-> run.total_count]
             /\ pc' = "done"
             /\ run' = frame
             /\ obs' = [obs EXCEPT !.fresh = ~obs.moved, !.streak = 0]
        ELSE /\ run' = [frame EXCEPT !.site = "save"]
             /\ pc' = OnException("save")
             /\ UNCHANGED <<efos_metadata, result, obs>>
    /\ UNCHANGED <<remote, changes, efos_records, clock, raised, CallVars, AuxVars>>

\* Lines 730-745: the outer handler turns the exception into an error result.
\* pc = "raise" stands for an exception no handler of the function catches.
HandleError ==
    /\ pc \in {"except", "raise"}
    /\ IF pc = "except"
       THEN result' = ErrorResult(run.site) /\ raised' = raised
       ELSE result' = NoResult /\ raised' = TRUE
    /\ pc' = "done"
    /\ obs' = [obs EXCEPT !.streak = 0]
    /\ UNCHANGED <<remote, changes, DbVars, clock, run, CallVars, AuxVars>>

\* The caller has the result; the frame is gone.
Return ==
    /\ pc = "done"
    /\ pc' = "idle"
    /\ run' = BlankRun
    /\ result' = NoResult
    /\ obs' = [BlankObs EXCEPT !.fresh = obs.fresh, !.streak = obs.streak]
    /\ UNCHANGED <<remote, changes, DbVars, clock, raised, CallVars, AuxVars>>

\* ------------------------------------------------------------- environment
\* The publisher replaces the file, or the server reports other headers.  A
\* change during the steps of a run that no longer read the remote commutes
\* with them, so it is taken between runs and before each read of the remote.
RemoteChange ==
    /\ pc \in {"idle", "download", "detect"}
    /\ changes < MaxChanges
    /\ changes' = changes + 1
    /\ \E r \in Remotes :
        /\ r # remote
        /\ remote' = r
    /\ obs' = IF pc = "idle"
               THEN [obs EXCEPT !.fresh = FALSE, !.streak = 0]
               ELSE [obs EXCEPT !.moved = TRUE, !.stable = FALSE, !.fresh = FALSE,
                                !.freshRun = FALSE, !.streak = 0]
    /\ UNCHANGED <<DbVars, clock, pc, run, result, raised, CallVars, AuxVars>>

Next ==
    \/ StartRun
    \/ InitialProbe
    \/ Download
    \/ DetectChange
    \/ SkipUnchanged
    \/ CleanCsv
    \/ ParseCsv
    \/ ImportDelete
    \/ ImportBatch
    \/ SaveAndReturn
    \/ HandleError
    \/ Return
    \/ RemoteChange

Spec == Init /\ [][Next]_vars

\* ------------------------------------------------------- import_efos_data
\* The import stage on its own: update_efos_database has parsed any list of
\* records (line 703) and the table holds any previous generation.
PriorTables == SeqsUpTo([rfc : RFCs, gen : {0}], MaxPrior)

InitImport ==
    /\ remote \in {r \in FirstRemotes : r.content.kind = "csv" /\ r.etag = NULL /\ r.lm = NULL
                                        /\ r.content.rows = <<>>}
    /\ changes = 0
    /\ efos_records \in PriorTables
    /\ efos_metadata = <<>>
    /\ clock = 1
    /\ pc = "delete"
    /\ \E records \in SeqsUpTo(RowKinds, MaxRecords) :
          /\ run = [BlankRun EXCEPT !.records = records, !.bound = {"records"}]
          /\ obs = [BlankObs EXCEPT !.tableAtStart = efos_records,
                                    !.downloaded = TRUE,
                                    !.yielded = Len(records)]
    /\ result = NoResult
    /\ raised = FALSE
    /\ is_job_running = FALSE
    /\ callers = <<>>
    /\ active = {}
    /\ fetch = NoFetch
    /\ locate = NoLocateFrame
    /\ parse = NoParseFrame

NextImport ==
    \/ ImportDelete
    \/ ImportBatch
    \/ SaveAndReturn
    \/ HandleError

SpecImport == InitImport /\ [][NextImport]_vars

\* ------------------------------------------------------------- the callers
\* update_efos_database_job runs on threads started by run_threaded (at
\* startup, efos_scheduler.py 324, and on the timer, 266-268); the endpoint
\* runs it in the request (foreground) or as a background task.
JobThreads == {"startup", "timer"}
Requests == {"background", "foreground"}
Callers == JobThreads \cup Requests

IdleCaller == [pc |-> "idle", calls |-> 0, outcome |-> "none", rendered |-> "none"]

InitCall ==
    /\ remote \in {r \in FirstRemotes : r.content.kind = "csv" /\ r.etag = NULL /\ r.lm = NULL
                                        /\ r.content.rows = <<>>}
    /\ changes = 0
    /\ efos_records = <<>>
    /\ efos_metadata = <<>>
    /\ clock = 0
    /\ pc = "idle"
    /\ run = BlankRun
    /\ result = NoResult
    /\ raised = FALSE
    /\ obs = BlankObs
    /\ is_job_running = FALSE
    /\ callers = [c \in Callers |-> IdleCaller]
    /\ active = {}
    /\ fetch = NoFetch
    /\ locate = NoLocateFrame
    /\ parse = NoParseFrame

RunVars == <<remote, changes, efos_records, efos_metadata, clock, pc, run, result,
             raised, obs>>

\* run_threaded(update_efos_database_job): a job thread starts.
JobStart ==
    \E t \in JobThreads :
        /\ callers[t].pc = "idle"
        /\ callers[t].calls < MaxCalls
        /\ callers' = [callers EXCEPT ![t].pc = "check", ![t].calls = @ + 1,
                                      ![t].outcome = "none", ![t].rendered = "none"]
        /\ UNCHANGED <<is_job_running, active, RunVars, AuxVars>>

\* Variant: the job goes on whatever the flag says.
after_check_Enters(flag) == "set"

\* efos_scheduler.py 133-137: `if is_job_running: return`, else the job
\* goes on to set the flag.
after_check(flag) == IF flag THEN "idle" ELSE "set"

\* efos_scheduler.py 133-135: the test of the flag.
JobCheck ==
    \E t \in JobThreads :
        /\ callers[t].pc = "check"
        /\ callers' = [callers EXCEPT ![t].pc = after_check(is_job_running),
                                      ![t].outcome = IF after_check(is_job_running) = "idle"
                                                     THEN "skipped" ELSE @]
        /\ UNCHANGED <<is_job_running, active, RunVars, AuxVars>>

\* efos_scheduler.py 137: `is_job_running = True`
JobSet ==
    \E t \in JobThreads :
        /\ callers[t].pc = "set"
        /\ is_job_running' = TRUE
        /\ callers' = [callers EXCEPT ![t].pc = "session"]
        /\ UNCHANGED <<active, RunVars, AuxVars>>

\* efos_scheduler.py 145-152: get_db_session(); without a session the job
\* resets the flag and returns (the finally clause resets it again).
JobSession ==
    \E t \in JobThreads, haveDb \in BOOLEAN :
        /\ callers[t].pc = "session"
        /\ IF haveDb
           THEN /\ callers' = [callers EXCEPT ![t].pc = "call"]
                /\ UNCHANGED is_job_running
           ELSE /\ callers' = [callers EXCEPT ![t].pc = "idle", ![t].outcome = "nosession",
                                              ![t].rendered = "heartbeat_failure"]
                /\ is_job_running' = FALSE
        /\ UNCHANGED <<active, RunVars, AuxVars>>

\* main.py 516-527: POST /update-efos-database.  Nothing is consulted before
\* the update is queued (background) or called (foreground).
EndpointRequest ==
    \E q \in Requests :
        /\ callers[q].pc = "idle"
        /\ callers[q].calls < MaxCalls
        /\ callers' = [callers EXCEPT ![q].pc = "call", ![q].calls = @ + 1,
                                      ![q].outcome = "none",
                                      ![q].rendered = IF q = "background"
                                                      THEN "processing" ELSE "none"]
        /\ UNCHANGED <<is_job_running, active, RunVars, AuxVars>>

\* efos_scheduler.py 159, main.py 519 and 527: update_efos_database is entered.
EnterUpdate ==
    \E c \in Callers :
        /\ callers[c].pc = "call"
        /\ callers' = [callers EXCEPT ![c].pc = "run"]
        /\ active' = active \cup {c}
        /\ UNCHANGED <<is_job_running, RunVars, AuxVars>>

\* save_metadata, line 173: `db.query(EfosMetadata).first()` in the caller's
\* own session; the answer decides between a new row and an update.
SaveQuery ==
    \E c \in Callers :
        /\ callers[c].pc = "run"
        /\ callers' = [callers EXCEPT ![c].pc = IF efos_metadata = <<>> THEN "save_new"
                                                ELSE "save_first"]
        /\ UNCHANGED <<is_job_running, active, RunVars, AuxVars>>

\* save_metadata, lines 175-199: `db.add(metadata_record)` when the query
\* found no row, the assignments, `db.commit()`.
SaveCommit ==
    \E c \in Callers :
        /\ callers[c].pc \in {"save_new", "save_first"}
        /\ efos_metadata' = IF callers[c].pc = "save_new"
                            THEN efos_metadata \o save_metadata(<<>>, EmptyDict, clock)
                            ELSE save_metadata(efos_metadata, EmptyDict, clock)
        /\ callers' = [callers EXCEPT ![c].pc = "saved"]
        /\ UNCHANGED <<is_job_running, active, remote, changes, efos_records, clock, pc,
                       run, result, raised, obs, AuxVars>>

\* update_efos_database returns its result to the caller: success or
\* unchanged after save_metadata, unchanged by the ETag short-circuit when a
\* row exists, error from the outer handler.
LeaveUpdate ==
    \E c \in Callers, status \in {"success", "unchanged", "error"} :
        /\ \/ callers[c].pc = "saved" /\ status # "error"
           \/ callers[c].pc = "run" /\ status = "error"
           \/ callers[c].pc = "run" /\ status = "unchanged" /\ efos_metadata # <<>>
        /\ callers' = [callers EXCEPT ![c].pc = "after", ![c].outcome = status]
        /\ active' = active \ {c}
        /\ UNCHANGED <<is_job_running, RunVars, AuxVars>>

\* efos_scheduler.py 161-184: send_heartbeat(success=True) for success and
\* for unchanged, send_heartbeat(success=False) otherwise.
heartbeat(status) ==
    IF status \in {"success", "unchanged"} THEN "heartbeat_success" ELSE "heartbeat_failure"

\* efos_scheduler.py 161-202: the job reports the result, or an exception
\* raised while it does (185-190: a print that fails, for instance) is caught
\* and reported as a failure; finally resets the flag (198).
JobFinally ==
    \E t \in JobThreads, raises \in BOOLEAN :
        /\ callers[t].pc = "after"
        /\ is_job_running' = FALSE
        /\ callers' = [callers EXCEPT
               ![t].pc = "idle",
               ![t].outcome = IF raises THEN "exception" ELSE @,
               ![t].rendered = IF raises THEN "heartbeat_failure"
                               ELSE heartbeat(callers[t].outcome)]
        /\ UNCHANGED <<active, RunVars, AuxVars>>

\* main.py 529: `"success" if result.get("status") == "success" else "error"`
status_msg(status) == IF status = "success" THEN "success" ELSE "error"

\* main.py 529-541: the foreground response; the background task just ends.
EndpointReturn ==
    \E q \in Requests :
        /\ callers[q].pc = "after"
        /\ callers' = [callers EXCEPT
               ![q].pc = "idle",
               ![q].rendered = IF q = "background" THEN @
                               ELSE status_msg(callers[q].outcome)]
        /\ UNCHANGED <<is_job_running, active, RunVars, AuxVars>>

NextCall ==
    \/ JobStart
    \/ JobCheck
    \/ JobSet
    \/ JobSession
    \/ EndpointRequest
    \/ EnterUpdate
    \/ SaveQuery
    \/ SaveCommit
    \/ LeaveUpdate
    \/ JobFinally
    \/ EndpointReturn

SpecCall == InitCall /\ [][NextCall]_vars

\* The scheduler alone: the startup thread and the timer thread, no request.
\* A thread that run_threaded started runs to its end: every step of the job
\* is taken once it can be (the requests have timeouts, the loops are bounded).
NextJob ==
    \/ JobStart
    \/ JobCheck
    \/ JobSet
    \/ JobSession
    \/ EnterUpdate
    \/ SaveQuery
    \/ SaveCommit
    \/ LeaveUpdate
    \/ JobFinally

SpecJob ==
    /\ InitCall
    /\ [][NextJob]_vars
    /\ WF_vars(JobCheck) /\ WF_vars(JobSet) /\ WF_vars(JobSession)
    /\ WF_vars(EnterUpdate) /\ WF_vars(SaveCommit) /\ WF_vars(LeaveUpdate)
    /\ WF_vars(JobFinally)

\* -------------------------------------------------------------- the fetcher
\* download_efos_csv (205-263) and get_file_metadata (38-81) share one retry
\* loop.  MAX_RETRIES is read from the environment; the server either fails
\* every request ("down") or answers as it pleases ("flaky").
FetchFns == {"download_efos_csv", "get_file_metadata"}

InitFetch ==
    /\ remote \in {r \in FirstRemotes : r.content.kind = "csv" /\ r.etag = NULL /\ r.lm = NULL
                                        /\ r.content.rows = <<>>}
    /\ changes = 0
    /\ efos_records = <<>>
    /\ efos_metadata = <<>>
    /\ clock = 0
    /\ pc = "idle"
    /\ run = BlankRun
    /\ result = NoResult
    /\ raised = FALSE
    /\ obs = BlankObs
    /\ is_job_running = FALSE
    /\ callers = <<>>
    /\ active = {}
    /\ \E fn \in FetchFns, n \in 0..MaxRetriesSetting, server \in {"down", "flaky"} :
          fetch = [fn |-> fn, MAX_RETRIES |-> n, server |-> server, pc |-> "loop",
                   retry_count |-> 0, attempts |-> 0, waits |-> <<>>,
                   last |-> "none"]
    /\ locate = NoLocateFrame
    /\ parse = NoParseFrame

\* Variant: the backoff does not grow with the attempt number.
wait_time_Flat(retry_count) == RETRY_BACKOFF

\* Lines 73 and 255: wait_time = RETRY_BACKOFF * retry_count
wait_time(retry_count) == RETRY_BACKOFF * retry_count

\* Variant: one attempt more than configured.
may_attempt_Inclusive(retry_count, max_retries) == retry_count <= max_retries

\* Lines 51, 72, 213 and 254: `retry_count < MAX_RETRIES`
may_attempt(retry_count, max_retries) == retry_count < max_retries

\* What one request can come to: a 2xx response with all the headers, one
\* without ETag, one without Content-Length, or a requests.RequestException
\* (timeout, connection error, non-2xx status through raise_for_status).
Answered == {"ok", "no_etag", "no_length"}

Responses(server) ==
    IF server = "down" THEN {"transport"} ELSE Answered \cup {"transport"}

\* Line 69: size_mb is a number when Content-Length is present and the
\* string "unknown" when it is not; line 70 formats it with `:.2f`.
size_mb(response) == IF response = "no_length" THEN "unknown" ELSE "number"

\* Lines 51 and 213: the loop test; a loop that is never entered falls
\* through to the end of the function, which returns None.
FetchLoop ==
    /\ fetch.pc = "loop"
    /\ fetch' = [fetch EXCEPT !.pc = IF may_attempt(fetch.retry_count, fetch.MAX_RETRIES)
                                     THEN "attempt" ELSE "returned_none"]
    /\ UNCHANGED <<RunVars, CallVars, locate, parse>>

\* Lines 52-70 and 214-251: one request.  get_file_metadata formats the size
\* with `:.2f`, which raises ValueError on the string "unknown" it uses when
\* Content-Length is missing; the handler catches only RequestException.
\* Lines 71-81 and 253-263: the handler counts the failure and either
\* computes the wait or raises the terminal error.
FetchAttempt ==
    /\ fetch.pc = "attempt"
    /\ \E response \in Responses(fetch.server) :
        LET count == fetch.retry_count + 1 IN
        fetch' =
          IF response = "transport"
          THEN [fetch EXCEPT !.attempts = @ + 1,
                             !.retry_count = count,
                             !.last = response,
                             !.pc = IF may_attempt(count, fetch.MAX_RETRIES)
                                    THEN "sleep" ELSE "raised"]
          ELSE IF fetch.fn = "get_file_metadata" /\ size_mb(response) = "unknown"
          THEN [fetch EXCEPT !.attempts = @ + 1, !.last = response,
                             !.pc = "raised_value_error"]
          ELSE [fetch EXCEPT !.attempts = @ + 1, !.last = response,
                             !.pc = "returned"]
    /\ UNCHANGED <<RunVars, CallVars, locate, parse>>

\* Lines 76 and 258: time.sleep(wait_time), then back to the loop test.
FetchSleep ==
    /\ fetch.pc = "sleep"
    /\ fetch' = [fetch EXCEPT !.waits = Append(@, wait_time(fetch.retry_count)),
                              !.pc = "loop"]
    /\ UNCHANGED <<RunVars, CallVars, locate, parse>>

NextFetch ==
    \/ FetchLoop
    \/ FetchAttempt
    \/ FetchSleep

SpecFetch == InitFetch /\ [][NextFetch]_vars

\* ------------------------------------------------------ the header locator
\* clean_csv.py: CSVCleaner.find_header_index (78-142) and the header loop of
\* CSVCleaner.process_csv (160-182).  Text is a sequence of characters.
max_preamble_lines == 30
min_header_keywords_match == 3
delimiter == ","
quotechar == "\""

header_keywords ==
    {<<"n", "o">>,
     <<"r", "f", "c">>,
     <<"n", "o", "m", "b", "r", "e">>,
     <<"s", "i", "t", "u", "a", "c", "i", "ó", "n">>,
     <<"s", "i", "t", "u", "a", "c", "i", "o", "n">>,
     <<"f", "e", "c", "h", "a">>,
     <<"p", "u", "b", "l", "i", "c", "a", "c", "i", "ó", "n">>,
     <<"p", "u", "b", "l", "i", "c", "a", "c", "i", "o", "n">>,
     <<"s", "a", "t">>,
     <<"d", "o", "f">>,
     <<"c", "o", "n", "t", "r", "i", "b", "u", "y", "e", "n", "t", "e">>,
     <<"o", "f", "i", "c", "i", "o">>,
     <<"d", "e", "f", "i", "n", "i", "t", "i", "v", "o">>,
     <<"p", "r", "e", "s", "u", "n", "t", "o">>,
     <<"d", "e", "s", "v", "i", "r", "t", "u", "a", "d", "o">>}

Whitespace == {" ", "\n"}
CommentChars == {"#", "!", "%", "/", "*"}

\* str.strip(chars)
RECURSIVE lstrip(_, _)
lstrip(s, chars) == IF s # <<>> /\ Head(s) \in chars THEN lstrip(Tail(s), chars) ELSE s

RECURSIVE rstrip(_, _)
rstrip(s, chars) ==
    IF s # <<>> /\ s[Len(s)] \in chars THEN rstrip(SubSeq(s, 1, Len(s) - 1), chars) ELSE s

strip(s, chars) == rstrip(lstrip(s, chars), chars)

\* str.lower()
UpperCase == <<"A", "B", "C", "D", "E", "F", "G", "H", "I", "J", "K", "L", "M", "N", "O", "P", "Q", "R", "S", "T", "U", "V", "W", "X", "Y", "Z", "Á", "É", "Í", "Ó", "Ú", "Ñ">>
LowerCase == <<"a", "b", "c", "d", "e", "f", "g", "h", "i", "j", "k", "l", "m", "n", "o", "p", "q", "r", "s", "t", "u", "v", "w", "x", "y", "z", "á", "é", "í", "ó", "ú", "ñ">>

lower(s) ==
    [k \in 1..Len(s) |->
        IF \E j \in 1..Len(UpperCase) : UpperCase[j] = s[k]
        THEN LowerCase[CHOOSE j \in 1..Len(UpperCase) : UpperCase[j] = s[k]]
        ELSE s[k]]

\* Line 70: .replace('á', 'a').replace('é', 'e')...
Accented == <<"á", "é", "í", "ó", "ú", "ñ">>
Unaccented == <<"a", "e", "i", "o", "u", "n">>

replace_accents(s) ==
    [k \in 1..Len(s) |->
        IF \E j \in 1..Len(Accented) : Accented[j] = s[k]
        THEN Unaccented[CHOOSE j \in 1..Len(Accented) : Accented[j] = s[k]]
        ELSE s[k]]

\* Line 73: `keyword in field_lower`
contains(keyword, s) ==
    \E k \in 0..(Len(s) - Len(keyword)) : SubSeq(s, k + 1, k + Len(keyword)) = keyword

\* Lines 61-74: the keywords found in the fields of a row.
found_keywords(row) ==
    LET stripped == {lower(strip(row[f], Whitespace)) : f \in 1..Len(row)} \ {<<>>}
        fields == {replace_accents(strip(field_lower, {"\"", "'"})) : field_lower \in stripped}
    IN {keyword \in header_keywords : \E field_lower \in fields : contains(keyword, field_lower)}

\* Variant: a comment line is scored like any other line.
is_likely_header_NoCommentRule(row) ==
    /\ row # <<>>
    /\ ~(Len(row) > 1 /\ \A k \in 2..Len(row) :
            strip(row[k], Whitespace) \in {<<>>, <<",">>})
    /\ Cardinality(found_keywords(row)) >= min_header_keywords_match

\* Lines 41-76.
is_likely_header(row) ==
    /\ row # <<>>
    /\ LET first == strip(row[1], Whitespace) IN ~(first # <<>> /\ Head(first) \in CommentChars)
    /\ ~(Len(row) > 1 /\ \A k \in 2..Len(row) :
            strip(row[k], Whitespace) \in {<<>>, <<",">>})
    /\ Cardinality(found_keywords(row)) >= min_header_keywords_match

\* next(csv.reader([line], delimiter, quotechar)): one record of the csv
\* module's excel dialect (doublequote, not strict).  csv_step is the
\* parser's transition on one character; st.at is the parser state.
csv_step(st, c) ==
    CASE st.at \in {"start_record", "start_field"} ->
             IF c = quotechar THEN [at |-> "in_quoted_field", field |-> <<>>, row |-> st.row]
             ELSE IF c = delimiter
                  THEN [at |-> "start_field", field |-> <<>>, row |-> Append(st.row, <<>>)]
             ELSE [at |-> "in_field", field |-> <<c>>, row |-> st.row]
      [] st.at = "in_field" ->
             IF c = delimiter
             THEN [at |-> "start_field", field |-> <<>>, row |-> Append(st.row, st.field)]
             ELSE [at |-> "in_field", field |-> Append(st.field, c), row |-> st.row]
      [] st.at = "in_quoted_field" ->
             IF c = quotechar THEN [st EXCEPT !.at = "quote_in_quoted_field"]
             ELSE [at |-> "in_quoted_field", field |-> Append(st.field, c), row |-> st.row]
      [] st.at = "quote_in_quoted_field" ->
             IF c = quotechar
             THEN [at |-> "in_quoted_field", field |-> Append(st.field, c), row |-> st.row]
             ELSE IF c = delimiter
                  THEN [at |-> "start_field", field |-> <<>>, row |-> Append(st.row, st.field)]
             ELSE [at |-> "in_field", field |-> Append(st.field, c), row |-> st.row]

\* The parser run over line[lo..hi], left half first.
RECURSIVE csv_parse(_, _, _, _)
csv_parse(line, lo, hi, st) ==
    IF lo > hi THEN st
    ELSE IF lo = hi THEN csv_step(st, line[lo])
    ELSE CHOOSE end \in {csv_parse(line, ((lo + hi) \div 2) + 1, hi, left) :
                             left \in {csv_parse(line, lo, (lo + hi) \div 2, st)}} : TRUE

csv_reader(line) ==
    CHOOSE row \in {IF end.at = "start_record" THEN end.row ELSE Append(end.row, end.field) :
                       end \in {csv_parse(line, 1, Len(line),
                                           [at |-> "start_record", field |-> <<>>,
                                            row |-> <<>>])}} : TRUE

\* The lines of the inputs: lines the scan passes over, and lines it accepts
\* as the header row (three rows of column names and a sentence without a
\* delimiter).
PreambleKinds == {"blank", "text", "comment", "fragment"}
HeaderKinds == {"plain", "quoted", "padded", "sentence"}

LineText(kind) ==
    CASE kind = "blank" -> <<"\n">>
      [] kind = "text" -> <<"S", "i", "t", "u", "a", "c", "i", "ó", "n", " ", "y", " ", "s", "i", "t", "u", "a", "c", "i", "o", "n", " ", "d", "e", "l", " ", "R", "F", "C", "\n">>
      [] kind = "comment" -> <<"#", " ", "R", "F", "C", ",", " ", "N", "o", "m", "b", "r", "e", ",", " ", "S", "A", "T", "\n">>
      [] kind = "fragment" -> <<"R", "F", "C", " ", "N", "o", "m", "b", "r", "e", " ", "S", "A", "T", ",", ",", "\n">>
      [] kind = "plain" -> <<"N", "o", ",", "R", "F", "C", ",", "N", "o", "m", "b", "r", "e", "\n">>
      [] kind = "quoted" -> <<"R", "F", "C", ",", "\"", "S", "i", "t", "u", "a", "c", "i", "ó", "n", ",", " ", "S", "A", "T", "\"", ",", "D", "O", "F", "\n">>
      [] kind = "padded" -> <<" ", " ", "F", "e", "c", "h", "a", ",", " ", "R", "F", "C", " ", ",", "O", "f", "i", "c", "i", "o", " ", "\n">>
      [] kind = "sentence" -> <<"N", "o", "m", "b", "r", "e", " ", "y", " ", "R", "F", "C", " ", "a", "n", "t", "e", " ", "e", "l", " ", "S", "A", "T", "\n">>
      [] kind = "data" -> <<"1", ",", "A", "B", "C", "0", "1", "0", "1", "0", "1", "A", "B", "1", "\n">>

\* The kinds of the lines of an input: the preamble lines, then either a
\* data row alone or the header row, a data row and a repeated header row.
InputKinds(pre, header) ==
    pre \o (IF header = "none" THEN <<"data">> ELSE <<header, "data", "plain">>)

InputLines(pre, header) ==
    LET kinds == InputKinds(pre, header) IN [k \in 1..Len(kinds) |-> LineText(kinds[k])]

\* Variant: the scan goes on to the end of the file.
scan_window_Whole(max_lines, lines) == Len(lines)

\* process_csv 167: lines[:max_preamble_lines]; find_header_index 91: range(max_lines)
scan_window(max_lines, lines) == Min(max_lines, Len(lines))

\* efos_manager.clean_csv_data 301-303: `if result.returncode != 0: raise`
clean_csv_failed(returncode) == returncode # 0

LocateFns == {"find_header_index", "process_csv"}

InitLocate ==
    /\ remote \in {r \in FirstRemotes : r.content.kind = "csv" /\ r.etag = NULL /\ r.lm = NULL
                                        /\ r.content.rows = <<>>}
    /\ changes = 0
    /\ efos_records = <<>>
    /\ efos_metadata = <<>>
    /\ clock = 0
    /\ pc = "idle"
    /\ run = BlankRun
    /\ result = NoResult
    /\ raised = FALSE
    /\ obs = BlankObs
    /\ is_job_running = FALSE
    /\ callers = <<>>
    /\ active = {}
    /\ fetch = NoFetch
    /\ parse = NoParseFrame
    /\ \E fn \in LocateFns, pre \in SeqsUpTo(PreambleKinds, MaxPreamble),
          header \in HeaderKinds \cup {"none"}, max_lines \in {SmallWindow, max_preamble_lines} :
          locate = [fn |-> fn, preamble |-> pre,
                    header |-> header, max_lines |-> max_lines, pc |-> "scan", i |-> 0,
                    header_index |-> -1, header_row |-> <<>>, output |-> <<>>,
                    returncode |-> -1]

\* find_header_index 91-129, process_csv 167-177: line i of the scan window.
\* On the first line find_header_index asks csv.Sniffer for the dialect; a
\* csv.Error of the sniffer skips the line (127-129).  process_csv writes the
\* header row it found (193).
ScanLine ==
    /\ locate.pc = "scan"
    /\ locate.i < scan_window(locate.max_lines, InputLines(locate.preamble, locate.header))
    /\ \E sniffed \in BOOLEAN :
        LET lines == InputLines(locate.preamble, locate.header)
            line_stripped == strip(lines[locate.i + 1], Whitespace)
            skipped == /\ locate.fn = "find_header_index"
                       /\ (line_stripped = <<>> \/ ~sniffed)
            row == csv_reader(line_stripped)
        IN
        /\ ~sniffed => (locate.fn = "find_header_index" /\ locate.i = 0
                        /\ line_stripped # <<>>)
        /\ IF ~skipped /\ is_likely_header(row)
           THEN locate' = [locate EXCEPT
                    !.header_index = locate.i, !.header_row = row, !.pc = "found",
                    !.output = IF locate.fn = "process_csv"
                               THEN <<[f \in 1..Len(row) |-> strip(row[f], Whitespace)]>>
                               ELSE <<>>]
           ELSE locate' = [locate EXCEPT !.i = @ + 1]
    /\ UNCHANGED <<remote, changes, DbVars, clock, pc, run, result, raised, obs, CallVars,
                   fetch, parse>>

\* find_header_index 142, process_csv 179-182: no line of the window
\* qualified; process_csv returns False and main (372) exits with 1.
ScanEnd ==
    /\ locate.pc = "scan"
    /\ locate.i >= scan_window(locate.max_lines, InputLines(locate.preamble, locate.header))
    /\ locate' = [locate EXCEPT !.pc = "not_found",
                                !.returncode = IF locate.fn = "process_csv" THEN 1 ELSE @]
    /\ UNCHANGED <<remote, changes, DbVars, clock, pc, run, result, raised, obs, CallVars,
                   fetch, parse>>

NextLocate ==
    \/ ScanLine
    \/ ScanEnd

SpecLocate == InitLocate /\ [][NextLocate]_vars

\* ------------------------------------------------- from text to table rows
\* clean_csv.py: the data section of CSVCleaner.process_csv (184-225);
\* efos_manager.py: parse_csv_data (335-430) and the record construction and
\* batch commit of import_efos_data (474-545).  Text is a sequence of
\* characters; Python's None is a token no text equals; an int is tagged.
MaxDataRows == 2        \* SpecParse: data lines of a file
MaxParsePreamble == 3   \* SpecParse: lines before the header row

None == <<"None">>
IntValue(n) == <<"int", n>>
IsInt(v) == Len(v) = 2 /\ v[1] = "int"

\* The header rows of the files, as lines of text.
ParseHeaders == {"efos", "dotted", "norfc", "efos5"}

HeaderText(kind) ==
    CASE kind = "efos" -> <<"N", "o", ",", "R", "F", "C", ",", "N", "o", "m", "b", "r", "e", " ", "d", "e", "l", " ", "C", "o", "n", "t", "r", "i", "b", "u", "y", "e", "n", "t", "e", ",", "S", "i", "t", "u", "a", "c", "i", "ó", "n", " ", "d", "e", "l", " ", "C", "o", "n", "t", "r", "i", "b", "u", "y", "e", "n", "t", "e", "\n">>
      [] kind = "dotted" -> <<"N", "o", ".", ",", " ", "R", ".", "F", ".", "C", ".", " ", ",", "N", "o", "m", "b", "r", "e", " ", "d", "e", "l", " ", "C", "o", "n", "t", "r", "i", "b", "u", "y", "e", "n", "t", "e", ",", "S", "i", "t", "u", "a", "c", "i", "o", "n", " ", "d", "e", "l", " ", "C", "o", "n", "t", "r", "i", "b", "u", "y", "e", "n", "t", "e", "\n">>
      [] kind = "norfc" -> <<"N", "o", ",", "N", "o", "m", "b", "r", "e", " ", "d", "e", "l", " ", "C", "o", "n", "t", "r", "i", "b", "u", "y", "e", "n", "t", "e", ",", "S", "i", "t", "u", "a", "c", "i", "ó", "n", " ", "d", "e", "l", " ", "C", "o", "n", "t", "r", "i", "b", "u", "y", "e", "n", "t", "e", "\n">>
      [] kind = "efos5" -> <<"N", "o", ",", "R", "F", "C", ",", "N", "o", "m", "b", "r", "e", " ", "d", "e", "l", " ", "C", "o", "n", "t", "r", "i", "b", "u", "y", "e", "n", "t", "e", ",", "S", "i", "t", "u", "a", "c", "i", "ó", "n", " ", "d", "e", "l", " ", "C", "o", "n", "t", "r", "i", "b", "u", "y", "e", "n", "t", "e", ",", "P", "u", "b", "l", "i", "c", "a", "c", "i", "ó", "n", " ", "p", "á", "g", "i", "n", "a", " ", "S", "A", "T", " ", "p", "r", "e", "s", "u", "n", "t", "o", "s", "\n">>

\* The lines after the header row, without their line terminator (the csv
\* module ends a record at a terminator outside quotes): complete rows, a
\* quoted field with a delimiter, a blank RFC, a sequence number that is not
\* a number, a padded one, a short row, a long row, an empty line, a comment
\* and a row of empty fields.
DataKinds == {"full", "quoted", "norfc", "badnum", "padnum", "short", "five", "blank", "comment", "empty"}

DataText(kind) ==
    CASE kind = "full" -> <<"1", ",", "A", "B", "C", "0", "1", "0", "1", "0", "1", "A", "B", "1", ",", "A", "C", "M", "E", " ", " ", "S", "A", ",", "D", "e", "f", "i", "n", "i", "t", "i", "v", "o">>
      [] kind = "quoted" -> <<"2", ",", "X", "Y", "Z", "0", "2", "0", "2", "0", "2", "X", "Y", "2", ",", "\"", "P", "E", "R", "E", "Z", ",", " ", "J", "U", "A", "N", "\"", ",", "P", "r", "e", "s", "u", "n", "t", "o">>
      [] kind = "norfc" -> <<"3", ",", " ", ",", "S", "I", "N", " ", "R", "F", "C", " ", "S", "A", ",", "D", "e", "f", "i", "n", "i", "t", "i", "v", "o">>
      [] kind = "badnum" -> <<"N", "/", "A", ",", "D", "E", "F", "0", "3", "0", "3", "0", "3", "D", "E", "3", ",", "O", "T", "R", "A", " ", "S", "A", ",", "D", "e", "f", "i", "n", "i", "t", "i", "v", "o">>
      [] kind = "padnum" -> <<" ", "4", " ", ",", "G", "H", "I", "0", "4", "0", "4", "0", "4", "G", "H", "4", ",", "M", "A", "S", " ", "S", "A", ",", "D", "e", "f", "i", "n", "i", "t", "i", "v", "o">>
      [] kind = "short" -> <<"5", ",", "J", "K", "L", "0", "5", "0", "5", "0", "5", "J", "K", "5">>
      [] kind = "five" -> <<"6", ",", "M", "N", "O", "0", "6", "0", "6", "0", "6", "M", "N", "6", ",", "C", "I", "N", "C", "O", " ", "S", "A", ",", "P", "r", "e", "s", "u", "n", "t", "o", ",", "0", "1", "/", "0", "1", "/", "2", "0", "2", "0">>
      [] kind = "blank" -> <<>>
      [] kind = "comment" -> <<"#", " ", "f", "i", "n", " ", "d", "e", "l", " ", "l", "i", "s", "t", "a", "d", "o">>
      [] kind = "empty" -> <<",", ",", ",">>

\* The lines before the header row: text, an empty line, a comment, in turn.
PreambleLine(k) == LineText(<<"text", "blank", "comment">>[((k - 1) % 3) + 1])

FileLines(p, header) == [k \in 1..(p + 1) |-> IF k <= p THEN PreambleLine(k) ELSE HeaderText(header)]


\* str.replace(old, new) for a one-character old
RECURSIVE replace(_, _, _)
replace(s, old, new) ==
    IF s = <<>> THEN <<>>
    ELSE (IF Head(s) = old THEN new ELSE <<Head(s)>>) \o replace(Tail(s), old, new)

\* str.startswith(prefix)
startswith(s, prefix) == Len(prefix) <= Len(s) /\ SubSeq(s, 1, Len(prefix)) = prefix

\* clean_csv.py 215: ' '.join(field.replace('\n', ' ').split())
RECURSIVE squeeze(_)
squeeze(s) ==
    IF Len(s) < 2 THEN s
    ELSE IF s[1] \in Whitespace /\ s[2] \in Whitespace THEN squeeze(Tail(s))
    ELSE <<s[1]>> \o squeeze(Tail(s))

clean_field(field) ==
    LET words == squeeze(strip(field, Whitespace))
    IN [k \in 1..Len(words) |-> IF words[k] \in Whitespace THEN " " ELSE words[k]]

\* clean_csv.py 193: field.replace('\n', ' ').strip()
header_field(field) == strip(replace(field, "\n", <<" ">>), Whitespace)

\* csv.writer(delimiter, quotechar, lineterminator='\n').writerow, minimal
\* quoting: a field is quoted when it holds the delimiter, the quote
\* character or a line break, and a row of one empty field is written "".
write_field(field) ==
    IF \E k \in 1..Len(field) : field[k] \in {delimiter, quotechar, "\n", "\r"}
    THEN <<quotechar>> \o replace(field, quotechar, <<quotechar, quotechar>>) \o <<quotechar>>
    ELSE field

RECURSIVE join_fields(_)
join_fields(row) ==
    IF row = <<>> THEN <<>>
    ELSE IF Len(row) = 1 THEN write_field(row[1])
    ELSE write_field(row[1]) \o <<delimiter>> \o join_fields(Tail(row))

writerow(row) == IF row = <<<<>>>> THEN <<quotechar, quotechar>> ELSE join_fields(row)

\* clean_csv.py 167-177: the index of the first line of the window that
\* is_likely_header accepts, -1 when there is none.
first_hit(hits) == IF hits = {} THEN -1 ELSE (CHOOSE k \in hits : \A j \in hits : k <= j) - 1

find_header(lines) ==
    LET window == 1..scan_window(max_preamble_lines, lines)
        accepted == {k \in window : is_likely_header(csv_reader(strip(lines[k], Whitespace)))}
    IN CHOOSE index \in {first_hit(hits) : hits \in {accepted}} : TRUE

\* clean_csv.py 205-220: what becomes of one row of the data section: the
\* cleaned row, or nothing when the row is skipped.
clean_row(row) ==
    IF row = <<>> \/ startswith(strip(row[1], Whitespace), <<"#">>) THEN <<>>
    ELSE IF \E f \in 1..Len(row) : strip(row[f], Whitespace) # <<>>
         THEN <<[f \in 1..Len(row) |-> clean_field(row[f])]>>
         ELSE <<>>


\* parse_csv_data 367-406: the renamings of the normalised column names.
renamed(k) ==
    IF k = <<"n", "o">> THEN <<"n", "u", "m", "e", "r", "o">>
    ELSE IF k = <<"s", "i", "t", "u", "a", "c", "i", "ó", "n", "_", "d", "e", "l", "_", "c", "o", "n", "t", "r", "i", "b", "u", "y", "e", "n", "t", "e">> THEN <<"s", "i", "t", "u", "a", "c", "i", "o", "n", "_", "c", "o", "n", "t", "r", "i", "b", "u", "y", "e", "n", "t", "e">>
    ELSE IF startswith(k, <<"n", "ú", "m", "e", "r", "o", "_", "y", "_", "f", "e", "c", "h", "a">>)
    THEN
         IF contains(<<"p", "r", "e", "s", "u", "n", "c", "i", "ó", "n", "_", "s", "a", "t">>, k) THEN <<"n", "u", "m", "e", "r", "o", "_", "f", "e", "c", "h", "a", "_", "o", "f", "i", "c", "i", "o", "_", "g", "l", "o", "b", "a", "l", "_", "p", "r", "e", "s", "u", "n", "c", "i", "o", "n", "_", "s", "a", "t">>
         ELSE IF contains(<<"p", "r", "e", "s", "u", "n", "c", "i", "ó", "n", "_", "d", "o", "f">>, k) THEN <<"n", "u", "m", "e", "r", "o", "_", "f", "e", "c", "h", "a", "_", "o", "f", "i", "c", "i", "o", "_", "g", "l", "o", "b", "a", "l", "_", "p", "r", "e", "s", "u", "n", "c", "i", "o", "n", "_", "d", "o", "f">>
         ELSE IF contains(<<"d", "e", "s", "v", "i", "r", "t", "u", "a", "r", "o", "n", "_", "s", "a", "t">>, k) THEN <<"n", "u", "m", "e", "r", "o", "_", "f", "e", "c", "h", "a", "_", "o", "f", "i", "c", "i", "o", "_", "g", "l", "o", "b", "a", "l", "_", "c", "o", "n", "t", "r", "i", "b", "u", "y", "e", "n", "t", "e", "s", "_", "d", "e", "s", "v", "i", "r", "t", "u", "a", "r", "o", "n", "_", "s", "a", "t">>
         ELSE IF contains(<<"d", "e", "s", "v", "i", "r", "t", "u", "a", "r", "o", "n", "_", "d", "o", "f">>, k) THEN <<"n", "u", "m", "e", "r", "o", "_", "f", "e", "c", "h", "a", "_", "o", "f", "i", "c", "i", "o", "_", "g", "l", "o", "b", "a", "l", "_", "c", "o", "n", "t", "r", "i", "b", "u", "y", "e", "n", "t", "e", "s", "_", "d", "e", "s", "v", "i", "r", "t", "u", "a", "r", "o", "n", "_", "d", "o", "f">>
         ELSE IF contains(<<"d", "e", "f", "i", "n", "i", "t", "i", "v", "o", "s", "_", "s", "a", "t">>, k) THEN <<"n", "u", "m", "e", "r", "o", "_", "f", "e", "c", "h", "a", "_", "o", "f", "i", "c", "i", "o", "_", "g", "l", "o", "b", "a", "l", "_", "d", "e", "f", "i", "n", "i", "t", "i", "v", "o", "s", "_", "s", "a", "t">>
         ELSE IF contains(<<"d", "e", "f", "i", "n", "i", "t", "i", "v", "o", "s", "_", "d", "o", "f">>, k) THEN <<"n", "u", "m", "e", "r", "o", "_", "f", "e", "c", "h", "a", "_", "o", "f", "i", "c", "i", "o", "_", "g", "l", "o", "b", "a", "l", "_", "d", "e", "f", "i", "n", "i", "t", "i", "v", "o", "s", "_", "d", "o", "f">>
         ELSE IF contains(<<"s", "e", "n", "t", "e", "n", "c", "i", "a", "_", "f", "a", "v", "o", "r", "a", "b", "l", "e", "_", "s", "a", "t">>, k) THEN <<"n", "u", "m", "e", "r", "o", "_", "f", "e", "c", "h", "a", "_", "o", "f", "i", "c", "i", "o", "_", "g", "l", "o", "b", "a", "l", "_", "s", "e", "n", "t", "e", "n", "c", "i", "a", "_", "f", "a", "v", "o", "r", "a", "b", "l", "e", "_", "s", "a", "t">>
         ELSE IF contains(<<"s", "e", "n", "t", "e", "n", "c", "i", "a", "_", "f", "a", "v", "o", "r", "a", "b", "l", "e", "_", "d", "o", "f">>, k) THEN <<"n", "u", "m", "e", "r", "o", "_", "f", "e", "c", "h", "a", "_", "o", "f", "i", "c", "i", "o", "_", "g", "l", "o", "b", "a", "l", "_", "s", "e", "n", "t", "e", "n", "c", "i", "a", "_", "f", "a", "v", "o", "r", "a", "b", "l", "e", "_", "d", "o", "f">>
         ELSE k
    ELSE IF startswith(k, <<"p", "u", "b", "l", "i", "c", "a", "c", "i", "ó", "n", "_">>)
    THEN
         IF contains(<<"s", "a", "t", "_", "p", "r", "e", "s", "u", "n", "t", "o", "s">>, k) THEN <<"p", "u", "b", "l", "i", "c", "a", "c", "i", "o", "n", "_", "p", "a", "g", "i", "n", "a", "_", "s", "a", "t", "_", "p", "r", "e", "s", "u", "n", "t", "o", "s">>
         ELSE IF contains(<<"d", "o", "f", "_", "p", "r", "e", "s", "u", "n", "t", "o", "s">>, k) THEN <<"p", "u", "b", "l", "i", "c", "a", "c", "i", "o", "n", "_", "d", "o", "f", "_", "p", "r", "e", "s", "u", "n", "t", "o", "s">>
         ELSE IF contains(<<"s", "a", "t", "_", "d", "e", "s", "v", "i", "r", "t", "u", "a", "d", "o", "s">>, k) THEN <<"p", "u", "b", "l", "i", "c", "a", "c", "i", "o", "n", "_", "p", "a", "g", "i", "n", "a", "_", "s", "a", "t", "_", "d", "e", "s", "v", "i", "r", "t", "u", "a", "d", "o", "s">>
         ELSE IF contains(<<"d", "o", "f", "_", "d", "e", "s", "v", "i", "r", "t", "u", "a", "d", "o", "s">>, k) THEN <<"p", "u", "b", "l", "i", "c", "a", "c", "i", "o", "n", "_", "d", "o", "f", "_", "d", "e", "s", "v", "i", "r", "t", "u", "a", "d", "o", "s">>
         ELSE IF contains(<<"s", "a", "t", "_", "d", "e", "f", "i", "n", "i", "t", "i", "v", "o", "s">>, k) THEN <<"p", "u", "b", "l", "i", "c", "a", "c", "i", "o", "n", "_", "p", "a", "g", "i", "n", "a", "_", "s", "a", "t", "_", "d", "e", "f", "i", "n", "i", "t", "i", "v", "o", "s">>
         ELSE IF contains(<<"d", "o", "f", "_", "d", "e", "f", "i", "n", "i", "t", "i", "v", "o", "s">>, k) THEN <<"p", "u", "b", "l", "i", "c", "a", "c", "i", "o", "n", "_", "d", "o", "f", "_", "d", "e", "f", "i", "n", "i", "t", "i", "v", "o", "s">>
         ELSE IF contains(<<"s", "a", "t", "_", "s", "e", "n", "t", "e", "n", "c", "i", "a", "_", "f", "a", "v", "o", "r", "a", "b", "l", "e">>, k) THEN <<"p", "u", "b", "l", "i", "c", "a", "c", "i", "o", "n", "_", "p", "a", "g", "i", "n", "a", "_", "s", "a", "t", "_", "s", "e", "n", "t", "e", "n", "c", "i", "a", "_", "f", "a", "v", "o", "r", "a", "b", "l", "e">>
         ELSE IF contains(<<"d", "o", "f", "_", "s", "e", "n", "t", "e", "n", "c", "i", "a", "_", "f", "a", "v", "o", "r", "a", "b", "l", "e">>, k) THEN <<"p", "u", "b", "l", "i", "c", "a", "c", "i", "o", "n", "_", "d", "o", "f", "_", "s", "e", "n", "t", "e", "n", "c", "i", "a", "_", "f", "a", "v", "o", "r", "a", "b", "l", "e">>
         ELSE k
    ELSE k

\* Variant: the column No keeps its name.
normalized_key_NoRename(key) == replace(replace(lower(key), " ", <<"_">>), ".", <<>>)

\* parse_csv_data 366: key.lower().replace(' ', '_').replace('.', ''), then
\* the renamings.
normalized_key(key) ==
    CHOOSE name \in {renamed(k) : k \in {replace(replace(lower(key), " ", <<"_">>), ".", <<>>)}} :
        TRUE

key_numero == <<"n", "u", "m", "e", "r", "o">>
key_rfc == <<"r", "f", "c">>
key_nombre_del_contribuyente == <<"n", "o", "m", "b", "r", "e", "_", "d", "e", "l", "_", "c", "o", "n", "t", "r", "i", "b", "u", "y", "e", "n", "t", "e">>
key_situacion_contribuyente == <<"s", "i", "t", "u", "a", "c", "i", "o", "n", "_", "c", "o", "n", "t", "r", "i", "b", "u", "y", "e", "n", "t", "e">>
key_publicacion_pagina_sat_presuntos == <<"p", "u", "b", "l", "i", "c", "a", "c", "i", "o", "n", "_", "p", "a", "g", "i", "n", "a", "_", "s", "a", "t", "_", "p", "r", "e", "s", "u", "n", "t", "o", "s">>

\* csv.DictReader: the value of column j of a row, None (restval) when the
\* row is short; values beyond the field names go under the key None, which
\* parse_csv_data skips (line 365).
column_value(fields, j) == IF j <= Len(fields) THEN fields[j] ELSE None

\* parse_csv_data 409: `value.strip() if value else None`
stored_value(value) == IF value = None \/ value = <<>> THEN None ELSE strip(value, Whitespace)

\* parse_csv_data 362-411: the dictionary of one row, keys being the
\* normalised field names (the same for every row of a file); a column
\* without a name is skipped (365) and a later column replaces an earlier
\* one of the same key.
normalized_row(fieldnames, keys, fields) ==
    LET named == {j \in 1..Len(fieldnames) : fieldnames[j] # <<>>}
        last(k) == CHOOSE j \in named :
                      keys[j] = k /\ \A h \in named : keys[h] = k => h <= j
    IN [k \in {keys[j] : j \in named} |-> stored_value(column_value(fields, last(k)))]

\* int(text): optional sign and decimal digits, surrounding whitespace
\* allowed; anything else raises ValueError.
Digits == <<"0", "1", "2", "3", "4", "5", "6", "7", "8", "9">>
DigitValue(c) == (CHOOSE d \in 1..Len(Digits) : Digits[d] = c) - 1

unsigned(text) ==
    LET s == strip(text, Whitespace) IN IF s # <<>> /\ Head(s) \in {"+", "-"} THEN Tail(s) ELSE s

is_int_literal(text) ==
    /\ unsigned(text) # <<>>
    /\ \A k \in 1..Len(unsigned(text)) : \E d \in 1..Len(Digits) : Digits[d] = unsigned(text)[k]

RECURSIVE digits_value(_)
digits_value(s) ==
    IF s = <<>> THEN 0 ELSE 10 * digits_value(SubSeq(s, 1, Len(s) - 1)) + DigitValue(s[Len(s)])

int(text) ==
    LET s == strip(text, Whitespace)
    IN IF Head(s) = "-" THEN 0 - digits_value(unsigned(text)) ELSE digits_value(unsigned(text))

\* Variant: a sequence number that is not a number is stored as it came.
coerce_numero_Keeps(record) ==
    IF key_numero \in DOMAIN record /\ record[key_numero] \notin {None, <<>>}
    THEN IF is_int_literal(record[key_numero]) THEN IntValue(int(record[key_numero]))
         ELSE record[key_numero]
    ELSE Get(record, key_numero, None)

\* import_efos_data 484-489 and 493: numero, after the coercion.
coerce_numero(record) ==
    IF key_numero \in DOMAIN record /\ record[key_numero] \notin {None, <<>>}
    THEN IF is_int_literal(record[key_numero]) THEN IntValue(int(record[key_numero]))
         ELSE None
    ELSE Get(record, key_numero, None)

\* import_efos_data 492-513: EfosRecord(...); the sixteen other text columns
\* are filled like publicacion_pagina_sat_presuntos, by record.get(name).
EfosRecord(record) ==
    [numero |-> coerce_numero(record),
     rfc |-> Get(record, key_rfc, <<>>),
     nombre_contribuyente |-> Get(record, key_nombre_del_contribuyente, <<>>),
     situacion_contribuyente |-> Get(record, key_situacion_contribuyente, None),
     publicacion_pagina_sat_presuntos |-> Get(record, key_publicacion_pagina_sat_presuntos, None)]

\* database.py 111-112: rfc and nombre_contribuyente are nullable=False.
not_null_violation(objs) ==
    \E k \in 1..Len(objs) : objs[k].rfc = None \/ objs[k].nombre_contribuyente = None

InitParse ==
    /\ remote \in {r \in FirstRemotes : r.content.kind = "csv" /\ r.etag = NULL /\ r.lm = NULL
                                        /\ r.content.rows = <<>>}
    /\ changes = 0
    /\ efos_records = <<>>
    /\ efos_metadata = <<>>
    /\ clock = 0
    /\ pc = "idle"
    /\ run = BlankRun
    /\ result = NoResult
    /\ raised = FALSE
    /\ obs = BlankObs
    /\ is_job_running = FALSE
    /\ callers = <<>>
    /\ active = {}
    /\ fetch = NoFetch
    /\ locate = NoLocateFrame
    /\ \E p \in 0..MaxParsePreamble, header \in ParseHeaders,
          rows \in SeqsUpTo(DataKinds, MaxDataRows) :
          parse = [NoParseFrame EXCEPT !.pc = "locate", !.preamble = p,
                                       !.header = header, !.rows = rows]

ParseUnchanged == UNCHANGED <<RunVars, CallVars, fetch, locate>>

\* process_csv 161-193: the header row is found and written.
LocateHeader ==
    /\ parse.pc = "locate"
    /\ \E lines \in {FileLines(parse.preamble, parse.header)} :
       \E index \in {find_header(lines)} :
       \E header_row \in {IF index = -1 THEN <<>>
                          ELSE csv_reader(strip(lines[index + 1], Whitespace))} :
          IF index = -1
          THEN parse' = [parse EXCEPT !.pc = "failed"]
          ELSE parse' = [parse EXCEPT
                   !.header_index = index,
                   !.cleaned = <<writerow([f \in 1..Len(header_row) |->
                                              header_field(header_row[f])])>>,
                   !.i = 0,
                   !.pc = IF parse.rows = <<>> THEN "fieldnames" ELSE "clean"]
    /\ ParseUnchanged

\* process_csv 205-220: one row of the data section, skipped or cleaned and
\* written.
CleanRow ==
    /\ parse.pc = "clean"
    /\ \E row \in {csv_reader(DataText(parse.rows[parse.i + 1]))} :
       \E written \in {clean_row(row)} :
          parse' = [parse EXCEPT
              !.cleaned = IF written = <<>> THEN @ ELSE Append(@, writerow(written[1])),
              !.i = @ + 1,
              !.pc = IF parse.i + 1 = Len(parse.rows) THEN "fieldnames" ELSE "clean"]
    /\ ParseUnchanged

\* parse_csv_data 350-354: csv.DictReader takes the field names from the
\* first row of the cleaned text; the keys they normalise to (366-406) are
\* the same for every row and are computed here, once.
ReadFieldnames ==
    /\ parse.pc = "fieldnames"
    /\ \E names \in {csv_reader(parse.cleaned[1])} :
       parse' = [parse EXCEPT !.fieldnames = names,
                              !.keys = [j \in 1..Len(names) |-> normalized_key(names[j])],
                              !.i = 1,
                              !.pc = IF Len(parse.cleaned) > 1 THEN "parse" ELSE "done"]
    /\ ParseUnchanged

\* parse_csv_data 361-411: one row becomes one dictionary.
ParseRow ==
    /\ parse.pc = "parse"
    /\ \E fields \in {csv_reader(parse.cleaned[parse.i + 1])} :
       parse' = [parse EXCEPT
           !.records = Append(@, normalized_row(parse.fieldnames, parse.keys, fields)),
           !.i = @ + 1,
           !.batch = 0,
           !.pc = IF parse.i + 1 = Len(parse.cleaned) THEN "import" ELSE "parse"]
    /\ ParseUnchanged

\* import_efos_data 474-545: one batch: the objects are built, saved and
\* committed; a batch the database refuses is rolled back and skipped.
ImportChunk ==
    /\ parse.pc = "import"
    /\ \E chunk \in {chunk_records(parse.records, parse.batch)} :
       \E objs \in {[k \in 1..Len(chunk) |-> EfosRecord(chunk[k])]} :
       \E committed \in {~not_null_violation(objs)} :
          parse' = [parse EXCEPT
              !.table = IF committed THEN @ \o objs ELSE @,
              !.total_count = total_count_after(@, objs, committed),
              !.batch = @ + 1,
              !.pc = IF parse.batch + 1 < NumChunks(parse.records) THEN "import" ELSE "done"]
    /\ ParseUnchanged

NextParse ==
    \/ LocateHeader
    \/ CleanRow
    \/ ReadFieldnames
    \/ ParseRow
    \/ ImportChunk

SpecParse == InitParse /\ [][NextParse]_vars

\* ================================================================= claims
Statuses == {"success", "unchanged", "error"}
AllNewGeneration == \A k \in 1..Len(efos_records) : efos_records[k].gen = clock

\* C1: update_efos_database never raises: whatever fails (probe, download,
\* change detection, cleaning, parsing, import, metadata save), the run ends
\* with a result whose status is success, unchanged or error.
C1_NeverRaises ==
    /\ ~raised
    /\ pc # "raise"
    /\ pc = "done" => result.status \in Statuses

\* A run in which both probes and the final metadata save failed.
C1_Witness ==
    /\ pc = "done"
    /\ obs.probeFailed /\ obs.detectFailed
    /\ run.site = "save"
    /\ result.status = "error"

\* C2: at most one ingestion run executes at a time: across the scheduler's
\* job threads and the endpoint (foreground or background) no two executions
\* of update_efos_database are in progress together.
C2_AtMostOneRun == Cardinality(active) <= 1

\* C3 as stated: after a success the table holds exactly the records the
\* Normalizer yielded minus those that failed construction, all of them new.
C3_FullReplaceAsStated ==
    (pc = "done" /\ result.status = "success") =>
        /\ Len(efos_records) = obs.yielded - obs.ctorFailed
        /\ AllNewGeneration

\* C3 amended: after a success the table holds exactly the rows the importer
\* counted (records_imported): the yielded records minus those that failed
\* construction minus those of the batches that were rolled back; no row of
\* the previous generation remains.
C3_FullReplace ==
    (pc = "done" /\ result.status = "success") =>
        /\ Len(efos_records) = result.records_imported
        /\ Len(efos_records) = obs.yielded - obs.ctorFailed - obs.batchLost
        /\ AllNewGeneration

\* A success over a previous generation, with a batch rolled back.
C3_Witness ==
    /\ pc = "done" /\ result.status = "success"
    /\ obs.tableAtStart # <<>>
    /\ obs.batchLost > 0

\* ---- C4
\* The stored metadata row describes the file the server holds.
StoredDescribes(metaTable, r) ==
    /\ metaTable # <<>>
    /\ Head(metaTable).etag = r.etag
    /\ Head(metaTable).last_modified = r.lm
    /\ Head(metaTable).content_hash = calculate_file_hash(r.content)

\* C4: a run against a remote file that has not changed since the last
\* successful import returns unchanged and deletes and inserts no row; here
\* for the runs in which no probe, download, save or commit fails.
C4_NoOpRunsNoFailure ==
    (/\ pc = "done" /\ obs.freshRun
     /\ ~obs.probeFailed /\ ~obs.touchFailed /\ ~obs.detectFailed
     /\ run.site = "none") =>
        /\ result.status = "unchanged"
        /\ efos_records = obs.tableAtStart
        /\ ~obs.deleted

\* The same for every run, failing ones included.
C4_NoOpRunsAsStated ==
    (pc = "done" /\ obs.freshRun) =>
        /\ result.status = "unchanged"
        /\ efos_records = obs.tableAtStart
        /\ ~obs.deleted

\* What holds: when the import stored the headers and the hash of the file
\* (its detector probe succeeded, see C14), the following runs in which
\* nothing fails return unchanged and delete and insert nothing.
C4_NoOpRuns ==
    (/\ obs.freshRun
     /\ StoredDescribes(obs.metaAtStart, remote)
     /\ ~obs.probeFailed /\ ~obs.touchFailed /\ ~obs.detectFailed
     /\ run.site = "none") =>
        /\ pc \in {"probe", "download", "detect", "skip", "done"}
        /\ efos_records = obs.tableAtStart
        /\ ~obs.deleted
        /\ StoredDescribes(efos_metadata, remote)
        /\ pc = "done" => result.status = "unchanged"

\* The second of two no-op runs after an import has returned.
C4_Witness ==
    /\ pc = "done"
    /\ obs.streak = 2
    /\ obs.freshRun
    /\ StoredDescribes(obs.metaAtStart, remote)
    /\ ~obs.probeFailed /\ ~obs.touchFailed /\ ~obs.detectFailed
    /\ result.status = "unchanged"
    /\ efos_records # <<>>

\* ---- C5
\* C5: when the header row is not found, or cleaning or parsing fails, the
\* run returns error and the table is as it was before the run: the import
\* and its delete never start.
C5_FormatErrorLeavesTable ==
    /\ (run.site \in {"clean", "parse"}) =>
          /\ efos_records = obs.tableAtStart
          /\ ~obs.deleted
          /\ pc \in {"except", "done"}
          /\ pc = "done" => result.status = "error"
    /\ (pc \in {"parse", "delete", "batch", "save"}) => run.csv_content.kind = "csv"
    /\ (pc = "done" /\ obs.deleted) => run.csv_content.kind = "csv"

\* A file without header row met a populated table.
C5_Witness ==
    /\ pc = "done"
    /\ run.site = "clean"
    /\ run.csv_content.kind = "nohdr"
    /\ obs.tableAtStart # <<>>

\* ---- C6
InTable(table, rfc) == check_rfc_in_efos(table, rfc) = "found"
InRecords(records, rfc) == \E k \in 1..Len(records) : records[k] = rfc
Importing == pc \in {"delete", "batch", "save"}

\* C6 as stated: at every point of an import the lookup sees the previous
\* generation or the new one, never an empty or partly loaded table: an RFC
\* of both snapshots is never reported absent.
C6_SnapshotAsStated ==
    Importing =>
        /\ \A rfc \in RFCs :
              (InTable(obs.tableAtStart, rfc) /\ InRecords(run.records, rfc))
                  => InTable(efos_records, rfc)
        /\ (obs.tableAtStart # <<>> /\ run.records # <<>>) => efos_records # <<>>

\* C6 amended: the lookup sees every row of the previous generation until
\* the import's delete is committed; from then on it sees only rows of the
\* new generation, those of the batches committed so far, so that during the
\* import the table may be empty or partly loaded.
C6_Snapshot ==
    /\ (Importing /\ ~obs.deleted) => efos_records = obs.tableAtStart
    /\ obs.deleted =>
          /\ AllNewGeneration
          /\ Len(efos_records) = obs.inserted
          /\ Len(efos_records) = run.total_count
          /\ Len(efos_records) <= run.batch * IMPORT_BATCH_SIZE
          /\ \A rfc \in RFCs : InTable(efos_records, rfc) => InRecords(run.records, rfc)

\* The first batch is committed, the second is not: an RFC of both snapshots
\* that comes in the second batch is absent.
C6_Witness ==
    /\ pc = "batch"
    /\ obs.deleted
    /\ run.batch = 1
    /\ Len(efos_records) = IMPORT_BATCH_SIZE
    /\ InTable(obs.tableAtStart, "A")
    /\ InRecords(run.records, "A")

\* ---- C7
\* A metadata row exists and the probe returned its non-empty etag.
ShortCircuitCase ==
    /\ obs.metaAtStart # <<>>
    /\ Truthy(obs.probedEtag)
    /\ Head(obs.metaAtStart).etag = obs.probedEtag

Detected == pc \in {"clean", "skip"} /\ ~obs.detectFailed
SameEtag ==
    /\ efos_metadata # <<>>
    /\ Truthy(remote.etag)
    /\ Head(efos_metadata).etag = remote.etag
OtherEtag ==
    /\ efos_metadata # <<>>
    /\ Truthy(remote.etag) /\ Truthy(Head(efos_metadata).etag)
    /\ Head(efos_metadata).etag # remote.etag
LastModifiedDiffers ==
    /\ Truthy(remote.lm) /\ Truthy(Head(efos_metadata).last_modified)
    /\ Head(efos_metadata).last_modified # remote.lm
HashDiffers ==
    /\ run.csv_content.kind # "empty"
    /\ Head(efos_metadata).content_hash # <<"sha256", run.csv_content>>

\* C8 as stated: stored etag and probed etag equal: not changed; probed etag
\* different: changed; no stored row: changed, whatever the probe and content.
C8_ByEtagAsStated ==
    /\ (Detected /\ SameEtag) => pc = "skip"
    /\ (Detected /\ OtherEtag) => pc = "clean"
    /\ (pc \in {"clean", "skip"} /\ efos_metadata = <<>>) => pc = "clean"

\* C8 amended: with equal etags the detector answers not changed exactly when
\* Last-Modified does not differ and the content is empty or hashes to the
\* stored content_hash; a different etag: changed; no stored row: changed.
C8_ByEtag ==
    /\ (Detected /\ SameEtag) =>
          (pc = "skip" <=> (~LastModifiedDiffers /\ ~HashDiffers))
    /\ (Detected /\ OtherEtag) => pc = "clean"
    /\ (pc \in {"clean", "skip"} /\ efos_metadata = <<>>) => pc = "clean"

\* Equal etags, Last-Modified moved on: changed.
C8_Witness ==
    /\ Detected /\ SameEtag
    /\ LastModifiedDiffers /\ ~HashDiffers
    /\ pc = "clean"

\* ---- C9
\* The server reports the stored headers for a body with another hash, and
\* did so during the whole run.
StaleHeaders ==
    /\ obs.stable
    /\ obs.metaAtStart # <<>>
    /\ Head(obs.metaAtStart).etag = remote.etag
    /\ Head(obs.metaAtStart).last_modified = remote.lm
    /\ Head(obs.metaAtStart).content_hash # <<"sha256", remote.content>>

\* C9 as stated, for a well-formed file: the hash catches a change the
\* headers hide: the detector answers changed and the run does not return
\* unchanged.
C9_HashCatchesAsStated ==
    (StaleHeaders /\ remote.content.kind = "csv") =>
        /\ pc # "skip"
        /\ pc = "done" => result.status # "unchanged"

\* C9 amended: the detector, given a non-empty body, answers changed; the
\* run re-imports when it reaches the download, which it does when the ETag
\* is empty or the initial probe fails; with a non-empty stored ETag that the
\* probe reports again the run returns unchanged without download, and an
\* empty body is not hashed.
C9_HashCatches ==
    StaleHeaders =>
        /\ pc = "skip" => run.csv_content.kind = "empty"
        /\ (pc = "done" /\ result.status = "unchanged") =>
              \/ ~obs.downloaded /\ Truthy(remote.etag) /\ ~obs.probeFailed
              \/ obs.downloaded /\ run.csv_content.kind = "empty"
        /\ (pc = "done" /\ ~obs.downloaded /\ run.site = "none") =>
              result.status = "unchanged"

\* A body replaced under an empty ETag is imported again.
C9_Witness ==
    /\ StaleHeaders
    /\ pc = "done"
    /\ result.status = "success"
    /\ ~obs.probeFailed /\ ~obs.detectFailed
    /\ obs.tableAtStart # <<>>
    /\ efos_records # obs.tableAtStart

\* ---- C10
\* C10: a failing probe fails safe: has_file_changed answers changed when its
\* probe fails, a failing initial probe does not end the run, and a run whose
\* probes both fail but whose download succeeds goes on to the re-import and
\* never returns unchanged.
C10_ProbeFailsSafe ==
    /\ (obs.detectFailed /\ pc \in {"clean", "skip"}) =>
          pc = "clean" /\ run.metadata = EmptyDict
    /\ (obs.probeFailed /\ pc \in {"except", "done"}) =>
          obs.downloaded \/ run.site = "download"
    /\ (obs.probeFailed /\ obs.detectFailed /\ pc = "done") =>
          /\ result.status # "unchanged"
          /\ result.status = "success" \/ run.site \in {"clean", "parse", "import", "save"}

\* Both probes failed and the file was imported again over the old rows.
C10_Witness ==
    /\ pc = "done"
    /\ obs.probeFailed /\ obs.detectFailed
    /\ result.status = "success"
    /\ obs.tableAtStart # <<>>
    /\ efos_records # <<>>

\* ---- C11
\* The waits of a fetch that failed n times and gave up: 5, 10, ... for the
\* failures before the last.
LinearWaits(n) == [k \in 1..(n - 1) |-> RETRY_BACKOFF * k]

\* C11: with MAX_RETRIES = N >= 1 and a server that fails every request,
\* download_efos_csv attempts exactly N times, sleeps RETRY_BACKOFF * k after
\* the k-th failure for k < N, not after the N-th, and raises the terminal
\* error with no attempt after it.
C11_RetryBound ==
    (fetch.fn = "download_efos_csv" /\ fetch.MAX_RETRIES >= 1 /\ fetch.server = "down") =>
        /\ fetch.attempts <= fetch.MAX_RETRIES
        /\ fetch.pc \in {"loop", "attempt", "sleep", "raised"}
        /\ fetch.pc = "raised" =>
              /\ fetch.attempts = fetch.MAX_RETRIES
              /\ fetch.waits = LinearWaits(fetch.MAX_RETRIES)
        /\ fetch.pc = "sleep" =>
              /\ fetch.attempts < fetch.MAX_RETRIES
              /\ fetch.waits = LinearWaits(fetch.attempts)
        /\ fetch.pc \in {"loop", "attempt"} =>
              /\ fetch.attempts < fetch.MAX_RETRIES
              /\ fetch.waits = LinearWaits(fetch.attempts + 1)

\* Three retries configured: three attempts, waits of 5 and 10, then the error.
C11_Witness ==
    /\ fetch.fn = "download_efos_csv"
    /\ fetch.server = "down"
    /\ fetch.MAX_RETRIES = 3
    /\ fetch.pc = "raised"
    /\ fetch.attempts = 3
    /\ fetch.waits = <<5, 10>>

\* ---- C12
RunEnded(statuses) == pc = "done" /\ result.status \in statuses

\* C12: last_updated and content_hash are modified only by runs that return
\* success: a run that returns unchanged (by the ETag short-circuit or after
\* a download) or error leaves both as they were.
C12_OnlySuccessUpdates ==
    RunEnded({"unchanged", "error"}) =>
        /\ obs.metaAtStart = <<>> => efos_metadata = <<>>
        /\ obs.metaAtStart # <<>> =>
              /\ efos_metadata # <<>>
              /\ Head(efos_metadata).last_updated = Head(obs.metaAtStart).last_updated
              /\ Head(efos_metadata).content_hash = Head(obs.metaAtStart).content_hash

\* ---- C13
\* C13: once a metadata row exists, every run sets its last_checked to the
\* time of the run, whether it returns success, unchanged or error.
C13_LastCheckedEveryRun ==
    (RunEnded(Statuses) /\ obs.metaAtStart # <<>>) =>
        /\ efos_metadata # <<>>
        /\ Head(efos_metadata).last_checked = clock

\* ---- C14
\* C14: after a run that returns success the metadata row holds the etag,
\* last_modified and content_hash of the file that was imported and
\* last_updated is the time of the run, also when a row existed before and
\* when the probe inside the change detector failed.  (Runs during which the
\* remote file was replaced are left out.)
C14_MetadataAfterSuccess ==
    (RunEnded({"success"}) /\ obs.stable) =>
        /\ efos_metadata # <<>>
        /\ Head(efos_metadata).etag = remote.etag
        /\ Head(efos_metadata).last_modified = remote.lm
        /\ Head(efos_metadata).content_hash = <<"sha256", run.csv_content>>
        /\ Head(efos_metadata).last_updated = clock

\* ---- C15
\* C15: in every result with status success, records_processed is the number
\* of records parsed from the cleaned CSV in that run and records_imported is
\* the number of rows the importer inserted.
C15_ResultCounts ==
    RunEnded({"success"}) =>
        /\ result.records_processed = obs.yielded
        /\ result.records_imported = obs.inserted

\* ---- C16
\* C16: in every state reachable by runs of update_efos_database, those
\* started by the scheduler and by the admin endpoint included, the
\* efos_metadata table holds zero rows or one row.
C16_SingleMetadataRow == Len(efos_metadata) <= 1

\* ---- C17
\* C17: given one batch of n records of which m are malformed (their
\* construction raises, or their rfc is missing), import_efos_data inserts
\* the n - m well-formed records and does not raise; no other database
\* failure is assumed.
C17_PartialBatch ==
    (/\ pc = "save" /\ NumChunks(run.records) = 1 /\ obs.dbFailed = 0) =>
        /\ run.total_count = Len(run.records) - obs.malformed
        /\ Len(efos_records) = Len(run.records) - obs.malformed

\* Batches in which a construction raises are handled as claimed.
C17_CtorFailuresSkipped ==
    (/\ pc = "save" /\ NumChunks(run.records) = 1 /\ obs.dbFailed = 0
     /\ NullRfc(run.records) = {}) =>
        /\ run.total_count = Len(run.records) - obs.malformed
        /\ Len(efos_records) = Len(run.records) - obs.malformed

\* ---- C18
\* C18: when the bulk insert or the commit of a batch fails, only that batch
\* is rolled back: the rows of the batches committed before it stay, the
\* loop goes on to the last batch, and the count returned is the sum of the
\* sizes of the committed batches.  So, once the old rows are deleted, the
\* count is the number of rows in the table, and at the end every record is
\* in the table, was skipped when it was built, or was in a batch that failed.
C18_BatchFailureIsLocal ==
    (pc \in {"batch", "save"} /\ obs.deleted) =>
        /\ run.total_count = Len(efos_records)
        /\ run.total_count = obs.inserted
        /\ AllNewGeneration
        /\ pc = "save" =>
              /\ run.batch = NumChunks(run.records)
              /\ Len(efos_records) + obs.batchLost + obs.ctorFailed = Len(run.records)

C18_Witness ==
    /\ pc = "save" /\ Len(run.records) = 3
    /\ obs.dbFailed = 1 /\ obs.batchLost = 2 /\ obs.ctorFailed = 0
    /\ run.total_count = 1 /\ Len(efos_records) = 1

\* ---- C19
Rendered(c, status) ==
    callers[c].pc = "idle" /\ callers[c].outcome = status /\ callers[c].rendered # "none"

\* C19: every rendering of a run result keeps the three outcomes apart: the
\* foreground response to a run that returned unchanged does not have status
\* "error", and the scheduler reports unchanged (like success) as a
\* successful check and only error as a failure.
C19_OutcomesKeptApart ==
    /\ Rendered("foreground", "unchanged") => callers["foreground"].rendered # "error"
    /\ Rendered("foreground", "success") => callers["foreground"].rendered = "success"
    /\ Rendered("foreground", "error") => callers["foreground"].rendered = "error"
    /\ \A t \in JobThreads :
        /\ Rendered(t, "unchanged") => callers[t].rendered = "heartbeat_success"
        /\ Rendered(t, "success") => callers[t].rendered = "heartbeat_success"
        /\ Rendered(t, "error") => callers[t].rendered = "heartbeat_failure"

\* The scheduler's part of C19 holds.
C19_SchedulerKeepsApart ==
    \A t \in JobThreads :
        /\ Rendered(t, "unchanged") => callers[t].rendered = "heartbeat_success"
        /\ Rendered(t, "success") => callers[t].rendered = "heartbeat_success"
        /\ Rendered(t, "error") => callers[t].rendered = "heartbeat_failure"

\* ---- C20
\* The fields of each header row, written out.
HeaderTokens(kind) ==
    CASE kind = "plain" -> <<<<"N", "o">>, <<"R", "F", "C">>, <<"N", "o", "m", "b", "r", "e">>>>
      [] kind = "quoted" -> <<<<"R", "F", "C">>, <<"S", "i", "t", "u", "a", "c", "i", "ó", "n", ",", " ", "S", "A", "T">>, <<"D", "O", "F">>>>
      [] kind = "padded" -> <<<<"F", "e", "c", "h", "a">>, <<" ", "R", "F", "C", " ">>, <<"O", "f", "i", "c", "i", "o">>>>
      [] kind = "sentence" -> <<<<"N", "o", "m", "b", "r", "e", " ", "y", " ", "R", "F", "C", " ", "a", "n", "t", "e", " ", "e", "l", " ", "S", "A", "T">>>>

Located == locate.pc \in {"found", "not_found"} /\ locate.header # "none"
                /\ locate.max_lines = max_preamble_lines

\* C20 as stated: after 5 preamble lines that do not qualify and a header
\* row with at least 3 keywords, the locator returns index 4 (0-based) and
\* the tokens of the header row.
C20_HeaderIndexAsStated ==
    (Located /\ Len(locate.preamble) = 5) =>
        /\ locate.pc = "found"
        /\ locate.header_index = 4
        /\ locate.header_row = HeaderTokens(locate.header)

\* C20: after 5 preamble lines that do not qualify and a header row with at
\* least 3 keywords, the locator returns index 5 (0-based), the index of the
\* header row, and exactly the tokens of the header row; in general, after
\* n >= 1 such lines it returns n.
C20_HeaderIndex ==
    (Located /\ Len(locate.preamble) >= 1) =>
        /\ locate.pc = "found"
        /\ locate.header_index = Len(locate.preamble)
        /\ locate.header_row = HeaderTokens(locate.header)

C20_Witness ==
    /\ locate.pc = "found" /\ locate.max_lines = max_preamble_lines
    /\ locate.preamble = <<"text", "blank", "comment", "fragment", "text">>
    /\ locate.header = "quoted"
    /\ locate.header_index = 5
    /\ locate.header_row = HeaderTokens("quoted")

\* ---- C22
IsPrefix(a, b) == Len(a) <= Len(b) /\ SubSeq(b, 1, Len(a)) = a

\* C22: one invocation of import_efos_data goes DELETING -> INSERTING(batch
\* 1..k) -> DONE.  The delete is committed before the first new row is
\* inserted; the batches are taken in order up to the last record, each only
\* adding rows; the invocation raises only from the delete step, and then
\* the previous rows remain; otherwise it returns a count.
C22_ImportStateMachine ==
    [][
        /\ pc = "delete" =>
            \/ /\ pc' \in {"batch", "save"}
               /\ obs'.deleted /\ efos_records' = <<>>
               /\ (pc' = "save") <=> (run.records = <<>>)
            \/ /\ pc' = "except" /\ run'.site = "import"
               /\ efos_records' = efos_records /\ ~obs'.deleted
        /\ pc = "batch" =>
            /\ obs.deleted
            /\ pc' \in {"batch", "save"}
            /\ run'.batch = run.batch + 1
            /\ IsPrefix(efos_records, efos_records')
            /\ (pc' = "save") <=> (run'.batch * IMPORT_BATCH_SIZE >= Len(run.records))
        /\ (pc = "save" /\ pc' = "done") => result'.records_imported = Len(efos_records)
        /\ (run'.site = "import" /\ run.site # "import") => pc = "delete"
    ]_vars

C22_Witness ==
    /\ pc = "save" /\ obs.tableAtStart # <<>> /\ obs.deleted
    /\ run.batch = 2 /\ obs.batchLost = 1 /\ run.total_count = 2

\* ---- C23
\* C23: process_csv returns the lowest-index line of the first
\* max_preamble_lines lines that qualifies as header; when no line of the
\* window qualifies, also when a qualifying row lies at or beyond the end of
\* the window, it signals not-found, has written no output row, and the exit
\* code makes clean_csv_data raise, which aborts the run.
C23_FirstInWindow ==
    (locate.fn = "process_csv" /\ locate.pc \in {"found", "not_found"}) =>
        IF locate.header # "none" /\ Len(locate.preamble) < locate.max_lines
        THEN /\ locate.pc = "found"
             /\ locate.header_index = Len(locate.preamble)
             /\ locate.header_row = HeaderTokens(locate.header)
        ELSE /\ locate.pc = "not_found"
             /\ locate.header_index = -1
             /\ locate.output = <<>>
             /\ clean_csv_failed(locate.returncode)

\* A header row just beyond the window is not found.
C23_Witness ==
    /\ locate.fn = "process_csv" /\ locate.pc = "not_found"
    /\ locate.header = "plain"
    /\ Len(locate.preamble) = locate.max_lines
    /\ locate.output = <<>> /\ locate.returncode = 1

\* ---- C24
Selected == InputKinds(locate.preamble, locate.header)[locate.header_index + 1]

\* C24: a scanned line is never selected as the header when it is blank, when
\* its first field starts with one of # ! % / *, or when its only non-empty
\* content is in the first field, a line without any delimiter included.
C24_NeverSelected ==
    locate.pc = "found" => Selected \notin {"blank", "comment", "fragment", "text", "sentence"}

\* Blank lines, comment lines and lines whose later fields are all empty are
\* never selected.
C24_SkippedLines ==
    locate.pc = "found" => Selected \notin {"blank", "comment", "fragment"}
\* ---- C27

\* C27: after a run that returns success the stored etag and the stored
\* content_hash describe one version of the file, the one whose rows were
\* imported, even when the remote file changes between the download and the
\* probe made by has_file_changed.
C27_OneVersionStored ==
    (RunEnded({"success"}) /\ ~obs.detectFailed) =>
        /\ efos_metadata # <<>>
        /\ Head(efos_metadata).content_hash = <<"sha256", run.csv_content>>
        /\ Head(efos_metadata).etag = obs.downloadedEtag

\* The run that follows such a success: it returns unchanged by the ETag
\* short-circuit while the table holds rows of a version other than the one
\* the remote file, and the stored ETag, name.
C27_StaleAfterRace ==
    /\ RunEnded({"unchanged"}) /\ ~obs.downloaded /\ ~obs.probeFailed
    /\ Truthy(remote.etag) /\ Head(efos_metadata).etag = remote.etag
    /\ Head(efos_metadata).content_hash # <<"sha256", remote.content>>
    /\ changes = 1

\* ---- C28

\* C28: get_file_metadata returns a metadata dictionary whenever the HEAD
\* request is answered with a 2xx status, whichever headers are missing, and
\* fails only after MAX_RETRIES transport-level failures.
C28_AnsweredReturns ==
    fetch.fn = "get_file_metadata" =>
        /\ (fetch.last \in Answered /\ fetch.pc # "attempt") => fetch.pc = "returned"
        /\ fetch.pc \in {"raised", "raised_value_error"} =>
              /\ fetch.retry_count = fetch.MAX_RETRIES
              /\ fetch.attempts = fetch.MAX_RETRIES

\* What does hold: an answer that carries Content-Length is returned,
\* with or without ETag, and the terminal error comes after MAX_RETRIES
\* transport failures.
C28_WithLengthReturns ==
    fetch.fn = "get_file_metadata" =>
        /\ (fetch.last \in Answered \ {"no_length"}) => fetch.pc = "returned"
        /\ fetch.pc = "raised" =>
              /\ fetch.retry_count = fetch.MAX_RETRIES
              /\ fetch.attempts = fetch.MAX_RETRIES

\* ---- C29
Started == {"session", "call", "run", "save_new", "save_first", "saved", "after"}

ZeroRecordFile(r) == r.content.kind = "csv" /\ r.content.rows = <<>>

\* C30: a run whose changed file has a header row and no data row deletes
\* every row, returns success with records_imported = 0 and saves the new
\* metadata, so the table is left empty, and the run that follows against the
\* same file, in which no request and no commit fails, returns unchanged.
C30_ZeroRecordRun ==
    /\ (RunEnded({"success"}) /\ obs.yielded = 0) =>
          /\ obs.deleted
          /\ efos_records = <<>>
          /\ result.records_imported = 0
          /\ efos_metadata # <<>>
    /\ (/\ pc = "done" /\ obs.freshRun /\ ZeroRecordFile(remote)
        /\ ~obs.probeFailed /\ ~obs.touchFailed /\ ~obs.detectFailed
        /\ run.site = "none") =>
          /\ result.status = "unchanged"
          /\ efos_records = <<>>

\* What holds: the zero-record run itself, and the following run when the
\* import stored the headers and the hash of the file (see C14).
C30_ZeroRecordRunStored ==
    /\ (RunEnded({"success"}) /\ obs.yielded = 0) =>
          /\ obs.deleted
          /\ efos_records = <<>>
          /\ result.records_imported = 0
          /\ efos_metadata # <<>>
    /\ (/\ pc = "done" /\ obs.freshRun /\ ZeroRecordFile(remote)
        /\ StoredDescribes(obs.metaAtStart, remote)
        /\ ~obs.probeFailed /\ ~obs.touchFailed /\ ~obs.detectFailed
        /\ run.site = "none") =>
          /\ result.status = "unchanged"
          /\ efos_records = <<>>

\* A table that held rows, emptied by the import of a file without data rows.
C30_Emptied ==
    /\ RunEnded({"success"}) /\ obs.yielded = 0
    /\ obs.tableAtStart # <<>> /\ efos_records = <<>>

\* ---- C21
\* The data rows with an integer in the No cell and an RFC, and what their
\* cells say.
NumberedRows == {"full", "quoted", "padnum", "short"}

Cells(kind) ==
    CASE kind = "full" ->
           [numero |-> IntValue(1), rfc |-> <<"A", "B", "C", "0", "1", "0", "1", "0", "1", "A", "B", "1">>,
            nombre_contribuyente |-> <<"A", "C", "M", "E", " ", "S", "A">>,
            situacion_contribuyente |-> <<"D", "e", "f", "i", "n", "i", "t", "i", "v", "o">>]
      [] kind = "quoted" ->
           [numero |-> IntValue(2), rfc |-> <<"X", "Y", "Z", "0", "2", "0", "2", "0", "2", "X", "Y", "2">>,
            nombre_contribuyente |-> <<"P", "E", "R", "E", "Z", ",", " ", "J", "U", "A", "N">>,
            situacion_contribuyente |-> <<"P", "r", "e", "s", "u", "n", "t", "o">>]
      [] kind = "padnum" ->
           [numero |-> IntValue(4), rfc |-> <<"G", "H", "I", "0", "4", "0", "4", "0", "4", "G", "H", "4">>,
            nombre_contribuyente |-> <<"M", "A", "S", " ", "S", "A">>,
            situacion_contribuyente |-> <<"D", "e", "f", "i", "n", "i", "t", "i", "v", "o">>]
      [] kind = "short" ->
           [numero |-> IntValue(5), rfc |-> <<"J", "K", "L", "0", "5", "0", "5", "0", "5", "J", "K", "5">>,
            nombre_contribuyente |-> None,
            situacion_contribuyente |-> None]

EfosCase ==
    /\ parse.header = "efos"
    /\ parse.pc \in {"import", "done"}
    /\ \A k \in 1..Len(parse.rows) : parse.rows[k] \in NumberedRows

\* C21 as stated: p preamble lines, the header No,RFC,Nombre del
\* Contribuyente,Situación del Contribuyente and k data rows give k records
\* in row order, each with numero the integer of its row, rfc populated and
\* every other canonical field null.
C21_AsStated ==
    EfosCase =>
        /\ Len(parse.records) = Len(parse.rows)
        /\ \A k \in 1..Len(parse.records) :
              LET record == EfosRecord(parse.records[k]) IN
              /\ record.numero = Cells(parse.rows[k]).numero
              /\ record.rfc = Cells(parse.rows[k]).rfc
              /\ record.nombre_contribuyente = None
              /\ record.situacion_contribuyente = None
              /\ record.publicacion_pagina_sat_presuntos = None

\* C21, amended: k records in row order, each with numero the integer of
\* its No cell, rfc, nombre_contribuyente and situacion_contribuyente the
\* cleaned cells of the row (null where the row has no such cell), and the
\* canonical fields without a column in the header null.
C21_RecordsOfRows ==
    EfosCase =>
        /\ parse.header_index = parse.preamble
        /\ Len(parse.records) = Len(parse.rows)
        /\ \A k \in 1..Len(parse.records) :
              LET record == EfosRecord(parse.records[k]) IN
              /\ record.numero = Cells(parse.rows[k]).numero
              /\ record.rfc = Cells(parse.rows[k]).rfc
              /\ record.nombre_contribuyente = Cells(parse.rows[k]).nombre_contribuyente
              /\ record.situacion_contribuyente = Cells(parse.rows[k]).situacion_contribuyente
              /\ record.publicacion_pagina_sat_presuntos = None

\* The spec's case: three preamble lines and two data rows, both imported.
C21_Witness ==
    /\ parse.pc = "done" /\ parse.header = "efos"
    /\ parse.preamble = 3 /\ parse.header_index = 3
    /\ parse.rows = <<"full", "quoted">>
    /\ Len(parse.records) = 2 /\ Len(parse.table) = 2
    /\ parse.table[1].numero = IntValue(1) /\ parse.table[2].numero = IntValue(2)

\* ---- C25
Handed == parse.pc \in {"import", "done"}

\* The rows the cleaner writes, in order (it drops empty lines, comments and
\* rows of empty fields).
IsWritten(kind) == kind \notin {"blank", "comment", "empty"}
Written == SelectSeq(parse.rows, IsWritten)

\* C25: every record handed to the importer has the key rfc with a string
\* value (the empty string at least), never absent and never null, for every
\* header the locator accepts and every data row, rows with an empty RFC
\* cell included.
C25_RfcPresent ==
    Handed =>
        \A k \in 1..Len(parse.records) :
            /\ key_rfc \in DOMAIN parse.records[k]
            /\ parse.records[k][key_rfc] # None

\* What holds: under a header with an RFC column, a row with something in
\* its RFC cell gives a record whose rfc is that text.
C25_RfcOfFilledCells ==
    (Handed /\ parse.header # "norfc") =>
        /\ Len(parse.records) = Len(Written)
        /\ \A k \in 1..Len(parse.records) :
              /\ key_rfc \in DOMAIN parse.records[k]
              /\ Written[k] # "norfc" =>
                    /\ parse.records[k][key_rfc] # None
                    /\ parse.records[k][key_rfc] # <<>>

\* ---- C26
\* C26: a record whose numero cannot be parsed as an integer is imported
\* with numero null: the record is not dropped, its batch is not failed and
\* the import goes on; every numero stored is an integer or null, never a
\* string.
C26_NumeroCoerced ==
    /\ parse.pc # "failed"
    /\ Handed =>
          /\ Len(parse.records) = Len(Written)
          /\ \A k \in 1..Len(parse.records) :
                LET record == EfosRecord(parse.records[k]) IN
                /\ record.numero = None \/ IsInt(record.numero)
                /\ Written[k] = "badnum" =>
                      /\ record.numero = None
                      /\ record.nombre_contribuyente \in {<<"O", "T", "R", "A", " ", "S", "A">>, <<"D", "E", "F", "0", "3", "0", "3", "0", "3", "D", "E", "3">>}
    /\ \A k \in 1..Len(parse.table) :
          parse.table[k].numero = None \/ IsInt(parse.table[k].numero)
    /\ (/\ parse.pc = "done" /\ parse.header # "norfc"
        /\ \A k \in 1..Len(Written) : Written[k] \notin {"norfc", "short"}) =>
          /\ Len(parse.table) = Len(Written)
          /\ parse.total_count = Len(Written)

\* A row with N/A for its number, imported with numero null next to a row
\* with number 1.
C26_Witness ==
    /\ parse.pc = "done" /\ parse.header = "efos"
    /\ parse.rows = <<"badnum", "full">>
    /\ Len(parse.table) = 2
    /\ parse.table[1].numero = None /\ parse.table[1].rfc = <<"D", "E", "F", "0", "3", "0", "3", "0", "3", "D", "E", "3">>
    /\ parse.table[2].numero = IntValue(1)

====
